---- MODULE Spec2Model ----
(***************************************************************************)
(* Order orchestration and secret-release engine                           *)
(* (GeneralizedFusionOrderManager, ChainAdapterFactory, BaseChainAdapter,  *)
(* fusionUtils).  Every await of the TypeScript source is a suspension     *)
(* point: an operation is cut into one action per run-to-completion        *)
(* segment, and the Settlement Service (the 1inch SDK) and the concrete    *)
(* chain adapters answer nondeterministically.                             *)
(***************************************************************************)
EXTENDS Integers, Sequences, FiniteSets, Bags, TLC

(***************************************************************************)
(* Bounds of the model.                                                    *)
(***************************************************************************)
MaxCalls == 3       \* calls of createOrder, cancelOrder and cleanup
MaxTicks == 2       \* interval callbacks fired, over all timers
MaxSecrets == 2     \* largest secretsCount a quote reports
MaxReady == 2       \* longest fill-readiness response
MaxInFlight == 2    \* operations suspended at an await at once
MaxRetriesArg == 4  \* largest maxRetries retry is called with
MaxRegOps == 4      \* operations on the adapter registry
MaxManagers == 2    \* managers built over the one registry
E2ETicks == 3       \* ticks of the end-to-end scenario
MaxWatchTicks == 4  \* interval callbacks of one TransactionWatcher.watch

(***************************************************************************)
(* Program constants.                                                      *)
(***************************************************************************)
DefaultMaxRetries == 3

\* Reading an array past its end (secrets[fill.idx]) yields undefined.
Undefined == 0

\* Keys of config.chainConfigs in iteration order: S and D have a registered
\* adapter factory, U has none.
ConfigChains == <<"S", "D", "U">>

\* Chain ids the singleton registry has a factory for when the manager is built.
DefaultRegistered == {"S", "D"}

\* Parameters createOrder is called with.
ChainPairs == {<<"S", "D">>, <<"S", "U">>, <<"U", "D">>}
Amounts == {0, 1000}
SecretCounts == 1..MaxSecrets

\* Settlement Service answers.
StatusResponses == {"executed", "cancelled", "pending"}

\* The entry of a fill-readiness response for index idx; index 0 comes with
\* an amount, a txHash and a resolver, the others without ("" is absent).
ReadyEntry(idx) ==
  IF idx = 0
    THEN [idx |-> 0, amount |-> "500", txHash |-> "0xabc", resolver |-> "R1"]
    ELSE [idx |-> idx, amount |-> "", txHash |-> "", resolver |-> ""]

\* Fill-readiness responses: the first n indices are ready, n = 0..MaxReady.
ReadyResponses == { [i \in 1..n |-> ReadyEntry(i - 1)] : n \in 0..MaxReady }

OrderHashes == 1..MaxCalls

\* Chain ids the registry is called with: a number and a string with the
\* same digits, as 137 and "137", have the same toString().
ChainId(type, key) == [type |-> type, key |-> key]
RegistryIds == {ChainId("number", "S"), ChainId("string", "S"),
                ChainId("number", "D"), ChainId("string", "U")}
Managers == 1..MaxManagers

\* Arguments retry is called with: maxRetries (a number from the
\* configuration, 0 and negative ones included) and the first delay.
RetryCounts == (0 - 1)..MaxRetriesArg
Delays == {1000, 500}

\* What the operation handed to retry resolves or rejects with.
Values == {"V1", "V2"}
Errors == {"E1", "E2"}

VARIABLES
  factories,        \* ChainAdapterFactory.adapters: chain ids with a factory
  instances,        \* ChainAdapterFactory.instances: chain id -> adapter object
  inst,             \* adapter objects: [chain, connected]
  initPc,           \* initializeAdapters: [pos, pc]
  adapters,         \* manager.adapters, in insertion order: [chain, inst, live]
  orderObjs,        \* UniversalOrder objects ever stored
  activeOrders,     \* manager.activeOrders: orderHash -> order object
  orderSecrets,     \* manager.orderSecrets: orderHash -> secrets
  pollingIntervals, \* manager.pollingIntervals: orderHash -> timer
  timers,           \* interval timers ever set: [order, live]
  creates,          \* createOrder calls suspended at an await (bag)
  cancels,          \* cancelOrder calls suspended at an await (bag)
  ticks,            \* interval callbacks suspended at an await (bag)
  cleanups,         \* cleanup calls suspended at an await (bag)
  nCalls,           \* public operations called so far
  nTicks,           \* interval callbacks fired so far
  nextSecret,       \* secrets drawn so far from the random source
  submitted,        \* <<orderHash, idx, secret>> -> successful submitSecret calls
  discarded,        \* secrets of createOrder calls that failed
  cancelled,        \* order hashes for which cancelOrder has succeeded
  lastOp,           \* what the last step did
  factoryIds,       \* ChainAdapterFactory.adapters: key -> the function registered
  madeBy,           \* adapter object -> the registered function that built it
  returned,         \* key -> what createAdapter last returned, while still cached
  mgrAdapters,      \* per manager: the chain ids its initializeAdapters has been
                    \* through (seen) and its adapters map, id -> adapter object (held)
  nRegOps,          \* registry operations called so far
  retryRun,         \* a call of retry: its arguments, locals and history
  watch             \* a call of TransactionWatcher.watch: its timer, polls and callbacks

vars == <<factories, instances, inst, initPc, adapters, orderObjs, activeOrders,
          orderSecrets, pollingIntervals, timers, creates, cancels, ticks,
          cleanups, nCalls, nTicks, nextSecret,
          submitted, discarded, cancelled, lastOp,
          factoryIds, madeBy, returned, mgrAdapters, nRegOps, retryRun, watch>>

registryVars == <<factories, instances, inst>>
storeVars == <<orderObjs, activeOrders, orderSecrets>>
loopVars == <<pollingIntervals, timers>>
callVars == <<creates, cancels, ticks, cleanups>>
countVars == <<nCalls, nTicks>>
histVars == <<submitted, discarded, cancelled>>
factoryVars == <<factoryIds, madeBy, returned, mgrAdapters, nRegOps>>

\* No TransactionWatcher.watch has been called.
NoWatch == [pc |-> "none"]

(***************************************************************************)
(* Helpers on maps and bags.                                               *)
(***************************************************************************)
EmptyMap == [x \in {} |-> 0]
MapSet(m, k, v) == [x \in (DOMAIN m) \cup {k} |-> IF x = k THEN v ELSE m[x]]
MapDelete(m, k) == [x \in (DOMAIN m) \ {k} |-> m[x]]
Range(f) == { f[x] : x \in DOMAIN f }
BagAdd(b, e) == b (+) SetToBag({e})
BagRemove(b, e) == b (-) SetToBag({e})

\* lastOp: the operation, what the step did, the order hash and the call's
\* parameters where it has them, and whether the operation has by now sent a
\* request to the Settlement Service (net).
Op(op, outcome, h, src, dst, amount, net) ==
  [op |-> op, outcome |-> outcome, h |-> h, src |-> src, dst |-> dst,
   amount |-> amount, net |-> net]

Step(op, outcome, h) == Op(op, outcome, h, "", "", 0, FALSE)

\* Operations suspended at an await.
InFlight == BagCardinality(creates) + BagCardinality(cancels)
            + BagCardinality(ticks) + BagCardinality(cleanups)

(***************************************************************************)
(* fusionUtils: OrderStatus, generateSecretsAndHashLock,                   *)
(* validateOrderParams, retry.                                             *)
(***************************************************************************)
CREATED == "created"
PENDING == "pending"
EXECUTED == "executed"
CANCELLED == "cancelled"

\* HashLock.hashSecret: a one-way function of the secret.
hashSecret(x) == <<"hash", x>>

\* Faulty variant of generateSecrets: the random source restarts with every
\* call, so values repeat.
generateSecretsRepeating(secretsCount) == [i \in 1..secretsCount |-> i]

\* getRandomBytes32 draws fresh values; the k-th value drawn is the number k.
generateSecrets(secretsCount) == [i \in 1..secretsCount |-> nextSecret + i]

\* Faulty variant of generateSecretHashes: only the first secret is hashed.
generateSecretHashesOfFirst(secrets) ==
  [i \in (DOMAIN secrets) \cap {1} |-> hashSecret(secrets[i])]

generateSecretHashes(secrets) == [i \in DOMAIN secrets |-> hashSecret(secrets[i])]

generateHashLock(secrets) ==
  IF Len(secrets) = 1
    THEN <<"single", secrets[1]>>
    ELSE <<"multi", [i \in DOMAIN secrets |-> <<i - 1, hashSecret(secrets[i])>>]>>

\* validateOrderParams on the order createOrder assembles: the chain ids, the
\* assets, the maker and the deadline (now + 3600) are present and the deadline
\* is in the future, so the amount decides.
AmountInvalid(amount) == amount <= 0

\* Faulty variant of RetryAgain: the backoff is waited after every failure.
RetryAgainAlways(i, maxRetries) == i < maxRetries

\* retry: after failed attempt i (0-based) the loop backs off and runs
\* attempt i + 1 iff i < maxRetries - 1; otherwise it rethrows lastError.
RetryAgain(i, maxRetries) == i < maxRetries - 1

(***************************************************************************)
(* ChainAdapterFactory.createAdapter.                                      *)
(***************************************************************************)
CanCreate(c) == c \in DOMAIN instances \/ c \in factories

\* Faulty variant of InstAfterCreate: an adapter is built on every call.
InstAfterCreateAlways(c) == Append(inst, [chain |-> c, connected |-> FALSE])

InstAfterCreate(c) ==
  IF c \in DOMAIN instances THEN inst
  ELSE Append(inst, [chain |-> c, connected |-> FALSE])

InstancesAfterCreate(c) ==
  IF c \in DOMAIN instances THEN instances ELSE MapSet(instances, c, Len(inst) + 1)

(***************************************************************************)
(* GeneralizedFusionOrderManager.initializeAdapters.  A chain whose        *)
(* createAdapter throws is logged and skipped within the same segment.     *)
(***************************************************************************)
RECURSIVE NextInitPos(_)
NextInitPos(p) ==
  IF p > Len(ConfigChains) THEN p
  ELSE IF CanCreate(ConfigChains[p]) THEN p
  ELSE NextInitPos(p + 1)

\* The entries of a Map keep their place in its list: an entry that is
\* removed stays in the list as a dead one (live = FALSE), where an iterator
\* passes over it, and a new key is appended.  Map.set keeps the place of a
\* key that is present.
AdaptersSet(c, a) ==
  IF \E k \in DOMAIN adapters : adapters[k].chain = c /\ adapters[k].live
    THEN [k \in DOMAIN adapters |->
            IF adapters[k].chain = c /\ adapters[k].live
              THEN [chain |-> c, inst |-> a, live |-> TRUE] ELSE adapters[k]]
    ELSE Append(adapters, [chain |-> c, inst |-> a, live |-> TRUE])

\* Map.clear.
AdaptersClear == [k \in DOMAIN adapters |-> [adapters[k] EXCEPT !.live = FALSE]]

\* The loop moves on from position p: createAdapter and the connect call of
\* the next chain that has an adapter, or the end of the loop.  connected is
\* the adapter object that has just connected (0: none).
InitAdvance(p, connected) ==
  LET q == NextInitPos(p + 1)
      flag(objs) == IF connected = 0 THEN objs
                    ELSE [objs EXCEPT ![connected].connected = TRUE]
  IN IF q > Len(ConfigChains)
       THEN /\ initPc' = [pos |-> q, pc |-> "done"]
            /\ instances' = instances
            /\ inst' = flag(inst)
       ELSE /\ initPc' = [pos |-> q, pc |-> "connecting"]
            /\ instances' = InstancesAfterCreate(ConfigChains[q])
            /\ inst' = flag(InstAfterCreate(ConfigChains[q]))

\* adapter.connect(chainConfig) resolves: the adapter is connected by then
\* and adapters.set(chainId, adapter) runs.
InitConnectResolved ==
  /\ initPc.pc = "connecting"
  /\ LET c == ConfigChains[initPc.pos] IN
     /\ adapters' = AdaptersSet(c, instances[c])
     /\ InitAdvance(initPc.pos, instances[c])
  /\ lastOp' = Step("init", "connected", 0)
  /\ UNCHANGED <<factoryVars, retryRun, watch>>
  /\ UNCHANGED <<factories, storeVars, loopVars, callVars, countVars, nextSecret, histVars>>

\* adapter.connect(chainConfig) rejects: logged, the chain is left out.
InitConnectRejected ==
  /\ initPc.pc = "connecting"
  /\ InitAdvance(initPc.pos, 0)
  /\ lastOp' = Step("init", "connectFailed", 0)
  /\ UNCHANGED <<factoryVars, retryRun, watch>>
  /\ UNCHANGED <<factories, adapters, storeVars, loopVars, callVars, countVars,
                 nextSecret, histVars>>

(***************************************************************************)
(* Adapter lookups of the manager.                                         *)
(***************************************************************************)
HasAdapter(c) == \E k \in DOMAIN adapters : adapters[k].chain = c /\ adapters[k].live

ManagerAdapter(c) == (CHOOSE k \in DOMAIN adapters : adapters[k].chain = c /\ adapters[k].live)

AdapterConnected(c) == HasAdapter(c) /\ inst[adapters[ManagerAdapter(c)].inst].connected

(***************************************************************************)
(* Monitoring timers: startOrderMonitoring / stopOrderMonitoring.          *)
(***************************************************************************)
TimersAfterStart(h) == Append(timers, [order |-> h, live |-> TRUE])

IntervalsAfterStart(h) == MapSet(pollingIntervals, h, Len(timers) + 1)

\* Faulty variant of TimersAfterStop: the map entry is deleted but
\* clearInterval is not called.
TimersAfterStopNoClear(h) == timers

TimersAfterStop(h) ==
  IF h \in DOMAIN pollingIntervals
    THEN [timers EXCEPT ![pollingIntervals[h]].live = FALSE]
    ELSE timers

IntervalsAfterStop(h) ==
  IF h \in DOMAIN pollingIntervals THEN MapDelete(pollingIntervals, h)
  ELSE pollingIntervals

(***************************************************************************)
(* GeneralizedFusionOrderManager.createOrder.                              *)
(***************************************************************************)
\* Faulty variant of UnsupportedPair: only the source adapter is looked at.
UnsupportedPairSrcOnly(src, dst) == ~HasAdapter(src)

\* if (!srcAdapter || !dstAdapter) throw "Unsupported chain pair".
UnsupportedPair(src, dst) == ~HasAdapter(src) \/ ~HasAdapter(dst)

\* Faulty variant of PlacedOrder: the status is left at CREATED after placement.
PlacedOrderStillCreated(call, h) ==
  [orderHash |-> h, srcChain |-> call.src, dstChain |-> call.dst,
   amount |-> call.amount, status |-> CREATED, fills |-> <<>>,
   secrets |-> call.secrets, secretHashes |-> generateSecretHashes(call.secrets),
   hashLock |-> generateHashLock(call.secrets)]

\* The order object as stored after placement.
PlacedOrder(call, h) ==
  [orderHash |-> h, srcChain |-> call.src, dstChain |-> call.dst,
   amount |-> call.amount, status |-> PENDING, fills |-> <<>>,
   secrets |-> call.secrets, secretHashes |-> generateSecretHashes(call.secrets),
   hashLock |-> generateHashLock(call.secrets)]

\* quoteResponse.orderHash: the Settlement Service gives every placed order a
\* hash of its own (the hash covers the order's fresh hash-lock).
FreshOrderHash == Len(orderObjs) + 1

\* The call: the adapter lookup, then the first getQuote attempt is sent.
\* secretsCount and secrets are locals of the call, unset until the quote is in.
CreateOrderCall(src, dst, amount) ==
  /\ nCalls < MaxCalls
  /\ InFlight < MaxInFlight
  /\ nCalls' = nCalls + 1
  /\ IF UnsupportedPair(src, dst)
       THEN /\ lastOp' = Op("createOrder", "UnsupportedChainPair", 0, src, dst, amount, FALSE)
            /\ creates' = creates
       ELSE /\ lastOp' = Op("createOrder", "awaitQuote", 0, src, dst, amount, TRUE)
            /\ creates' = BagAdd(creates, [src |-> src, dst |-> dst, amount |-> amount,
                                           pc |-> "quote", i |-> 0, secretsCount |-> 0,
                                           secrets |-> <<>>])
  /\ UNCHANGED <<factoryVars, retryRun, watch>>
  /\ UNCHANGED <<registryVars, initPc, adapters, storeVars, loopVars, cancels, ticks,
                 cleanups, nTicks, nextSecret, histVars>>

\* sdk.getQuote resolves with secretsCount n: secrets are generated, the order
\* is assembled and validated, and the first placeOrder attempt is sent.
CreateQuoteResolved(call, n) ==
  /\ call \in BagToSet(creates)
  /\ call.pc = "quote"
  /\ nextSecret' = nextSecret + n
  /\ IF AmountInvalid(call.amount)
       THEN /\ creates' = BagRemove(creates, call)
            /\ discarded' = discarded \cup Range(generateSecrets(n))
            /\ lastOp' = Op("createOrder", "InvalidOrder", 0, call.src, call.dst,
                            call.amount, TRUE)
       ELSE /\ creates' = BagAdd(BagRemove(creates, call),
                                 [call EXCEPT !.pc = "place", !.i = 0,
                                              !.secretsCount = n,
                                              !.secrets = generateSecrets(n)])
            /\ discarded' = discarded
            /\ lastOp' = Op("createOrder", "awaitPlace", 0, call.src, call.dst,
                            call.amount, TRUE)
  /\ UNCHANGED <<factoryVars, retryRun, watch>>
  /\ UNCHANGED <<registryVars, initPc, adapters, storeVars, loopVars, cancels, ticks,
                 cleanups, countVars, submitted, cancelled>>

\* sdk.getQuote rejects: retry backs off and tries again, or rethrows.
CreateQuoteRejected(call) ==
  /\ call \in BagToSet(creates)
  /\ call.pc = "quote"
  /\ IF RetryAgain(call.i, DefaultMaxRetries)
       THEN /\ creates' = BagAdd(BagRemove(creates, call), [call EXCEPT !.i = call.i + 1])
            /\ lastOp' = Op("createOrder", "retryQuote", 0, call.src, call.dst,
                            call.amount, TRUE)
       ELSE /\ creates' = BagRemove(creates, call)
            /\ lastOp' = Op("createOrder", "QuoteFailed", 0, call.src, call.dst,
                            call.amount, TRUE)
  /\ UNCHANGED <<factoryVars, retryRun, watch>>
  /\ UNCHANGED <<registryVars, initPc, adapters, storeVars, loopVars, cancels, ticks,
                 cleanups, countVars, nextSecret, histVars>>

\* sdk.placeOrder resolves with orderHash h: the order becomes PENDING under
\* h, the order and its secrets are stored (Map.set: an entry already under h
\* is replaced) and its monitoring loop is started.
CreatePlaceStored(call, h) ==
  /\ call \in BagToSet(creates)
  /\ call.pc = "place"
  /\ orderObjs' = Append(orderObjs, PlacedOrder(call, h))
  /\ activeOrders' = MapSet(activeOrders, h, Len(orderObjs) + 1)
  /\ orderSecrets' = MapSet(orderSecrets, h, call.secrets)
  /\ timers' = TimersAfterStart(h)
  /\ pollingIntervals' = IntervalsAfterStart(h)
  /\ lastOp' = Op("createOrder", "ok", h, call.src, call.dst, call.amount, TRUE)
  /\ creates' = BagRemove(creates, call)
  /\ UNCHANGED <<factoryVars, retryRun, watch>>
  /\ UNCHANGED <<registryVars, initPc, adapters, cancels, ticks, cleanups,
                 countVars, nextSecret, histVars>>

\* sdk.placeOrder resolves with a hash of the order's own.
CreatePlaceResolved(call) == CreatePlaceStored(call, FreshOrderHash)

\* sdk.placeOrder rejects: retry backs off and tries again, or rethrows; the
\* order object and its secrets are dropped with the call.
CreatePlaceRejected(call) ==
  /\ call \in BagToSet(creates)
  /\ call.pc = "place"
  /\ IF RetryAgain(call.i, DefaultMaxRetries)
       THEN /\ creates' = BagAdd(BagRemove(creates, call), [call EXCEPT !.i = call.i + 1])
            /\ discarded' = discarded
            /\ lastOp' = Op("createOrder", "retryPlace", 0, call.src, call.dst,
                            call.amount, TRUE)
       ELSE /\ creates' = BagRemove(creates, call)
            /\ discarded' = discarded \cup Range(call.secrets)
            /\ lastOp' = Op("createOrder", "PlaceFailed", 0, call.src, call.dst,
                            call.amount, TRUE)
  /\ UNCHANGED <<factoryVars, retryRun, watch>>
  /\ UNCHANGED <<registryVars, initPc, adapters, storeVars, loopVars, cancels, ticks,
                 cleanups, countVars, nextSecret, submitted, cancelled>>

(***************************************************************************)
(* The interval callback of startOrderMonitoring:                          *)
(* checkOrderStatus, then processOrderFills.                               *)
(***************************************************************************)
\* A suspended callback: the order hash of its closure, the await it is at,
\* the order object and the secrets array it holds, the fills it loops over
\* and its position in them.  recorded notes whether, when the pending
\* submitSecret was sent, the order already had a Fill of that index.
Tick(h, pc, obj, secrets, ready, j, recorded) ==
  [h |-> h, pc |-> pc, obj |-> obj, secrets |-> secrets, ready |-> ready, j |-> j,
   recorded |-> recorded]

\* secrets[fill.idx] with a 0-based idx.
SecretAt(secrets, idx) == IF idx + 1 \in DOMAIN secrets THEN secrets[idx + 1] ELSE Undefined

\* fill.amount || '0', fill.txHash || '', fill.resolver || ''.
OrDefault(v, d) == IF v = "" THEN d ELSE v

\* Faulty variant of FillRecord: the values of the response are dropped.
FillRecordBare(fill) == [idx |-> fill.idx, amount |-> "0", txHash |-> "", resolver |-> ""]

\* The Fill record pushed for an entry of the fill-readiness response
\* (its timestamp, the wall clock at the push, is left out).
FillRecord(fill) ==
  [idx |-> fill.idx, amount |-> OrDefault(fill.amount, "0"),
   txHash |-> OrDefault(fill.txHash, ""), resolver |-> OrDefault(fill.resolver, "")]

\* Faulty variant of TicksEnterFills: the secrets are those of whichever order
\* the secrets table lists first.
TicksEnterFillsAnySecrets(bag, h, secretsMap) ==
  IF h \in DOMAIN secretsMap
    THEN BagAdd(bag, Tick(h, "fills", 0,
                          secretsMap[CHOOSE g \in DOMAIN secretsMap :
                                       \A k \in DOMAIN secretsMap : g <= k],
                          <<>>, 0, FALSE))
    ELSE bag

\* processOrderFills up to its first await: without secrets for the hash it
\* returns and the callback ends, otherwise getReadyToAcceptSecretFills is sent.
\* secretsMap is orderSecrets as the segment leaves it.
TicksEnterFills(bag, h, secretsMap) ==
  IF h \in DOMAIN secretsMap
    THEN BagAdd(bag, Tick(h, "fills", 0, secretsMap[h], <<>>, 0, FALSE))
    ELSE bag

\* Faulty variant of TickFire: a cleared timer still fires.
TickFireCleared(t) ==
  /\ t \in DOMAIN timers
  /\ nTicks < MaxTicks
  /\ InFlight < MaxInFlight
  /\ nTicks' = nTicks + 1
  /\ LET h == timers[t].order IN
     /\ ticks' = IF h \in DOMAIN activeOrders
                   THEN BagAdd(ticks, Tick(h, "status", activeOrders[h], <<>>, <<>>, 0, FALSE))
                   ELSE TicksEnterFills(ticks, h, orderSecrets)
     /\ lastOp' = Step("tick", "fire", h)
  /\ UNCHANGED <<factoryVars, retryRun, watch>>
  /\ UNCHANGED <<registryVars, initPc, adapters, storeVars, loopVars, creates, cancels,
                 cleanups, nCalls, nextSecret, histVars>>

\* The callback of a live timer starts: checkOrderStatus looks the order up
\* and sends getOrderStatus, or returns at once and processOrderFills starts.
TickStart(t) ==
  /\ t \in DOMAIN timers
  /\ timers[t].live
  /\ InFlight < MaxInFlight
  /\ LET h == timers[t].order IN
     /\ ticks' = IF h \in DOMAIN activeOrders
                   THEN BagAdd(ticks, Tick(h, "status", activeOrders[h], <<>>, <<>>, 0, FALSE))
                   ELSE TicksEnterFills(ticks, h, orderSecrets)
     /\ lastOp' = Step("tick", "fire", h)
  /\ UNCHANGED <<factoryVars, retryRun, watch>>
  /\ UNCHANGED <<registryVars, initPc, adapters, storeVars, loopVars, creates, cancels,
                 cleanups, nCalls, nextSecret, histVars>>

\* The timer fires, counted against the bound on the ticks.
TickFire(t) ==
  /\ nTicks < MaxTicks
  /\ nTicks' = nTicks + 1
  /\ TickStart(t)

\* Faulty variant of TerminalReport: a reported cancellation does not stop
\* the loop.
TerminalReportExecutedOnly(s) == s = "executed"

\* What checkOrderStatus does with a reported status.
TerminalReport(s) == s \in {"executed", "cancelled"}

\* Faulty variant of StatusAfterReport: only a reported execution is recorded.
StatusAfterReportExecutedOnly(old, s) == IF s = "executed" THEN EXECUTED ELSE old

StatusAfterReport(old, s) ==
  IF s = "executed" THEN EXECUTED
  ELSE IF s = "cancelled" THEN CANCELLED
  ELSE old

\* sdk.getOrderStatus resolves with status s; then processOrderFills starts.
TickStatusResolved(tk, s) ==
  /\ tk \in BagToSet(ticks)
  /\ tk.pc = "status"
  /\ orderObjs' = [orderObjs EXCEPT ![tk.obj].status = StatusAfterReport(@, s)]
  /\ timers' = IF TerminalReport(s) THEN TimersAfterStop(tk.h) ELSE timers
  /\ pollingIntervals' = IF TerminalReport(s) THEN IntervalsAfterStop(tk.h)
                         ELSE pollingIntervals
  /\ ticks' = TicksEnterFills(BagRemove(ticks, tk), tk.h, orderSecrets)
  /\ lastOp' = Step("tick", s, tk.h)
  /\ UNCHANGED <<factoryVars, retryRun, watch>>
  /\ UNCHANGED <<registryVars, initPc, adapters, activeOrders, orderSecrets, creates,
                 cancels, cleanups, countVars, nextSecret, histVars>>

\* Faulty variant of TickStatusRejected: the error leaves checkOrderStatus and
\* the callback ends without processOrderFills.
TickStatusRejectedEnds(tk) ==
  /\ tk \in BagToSet(ticks)
  /\ tk.pc = "status"
  /\ ticks' = BagRemove(ticks, tk)
  /\ lastOp' = Step("tick", "statusFailed", tk.h)
  /\ UNCHANGED <<factoryVars, retryRun, watch>>
  /\ UNCHANGED <<registryVars, initPc, adapters, storeVars, loopVars, creates, cancels,
                 cleanups, countVars, nextSecret, histVars>>

\* sdk.getOrderStatus rejects: logged; then processOrderFills starts.
TickStatusRejected(tk) ==
  /\ tk \in BagToSet(ticks)
  /\ tk.pc = "status"
  /\ ticks' = TicksEnterFills(BagRemove(ticks, tk), tk.h, orderSecrets)
  /\ lastOp' = Step("tick", "statusFailed", tk.h)
  /\ UNCHANGED <<factoryVars, retryRun, watch>>
  /\ UNCHANGED <<registryVars, initPc, adapters, storeVars, loopVars, creates, cancels,
                 cleanups, countVars, nextSecret, histVars>>

\* The indices of the Fill records the order stored under h has, in objs.
RecordedIdx(h, objs) ==
  IF h \in DOMAIN activeOrders
    THEN { objs[activeOrders[h]].fills[k].idx : k \in DOMAIN objs[activeOrders[h]].fills }
    ELSE {}

\* The loop over the fills reaches entry j: submitSecret is sent for it, or
\* the loop and the callback end.  objs is orderObjs as the segment leaves it.
TicksSubmitNext(bag, tk, ready, j, objs) ==
  IF j <= Len(ready)
    THEN BagAdd(bag, Tick(tk.h, "submit", 0, tk.secrets, ready, j,
                          ready[j].idx \in RecordedIdx(tk.h, objs)))
    ELSE bag

\* sdk.getReadyToAcceptSecretFills resolves with the fills resp.
TickFillsResolved(tk, resp) ==
  /\ tk \in BagToSet(ticks)
  /\ tk.pc = "fills"
  /\ ticks' = TicksSubmitNext(BagRemove(ticks, tk), tk, resp, 1, orderObjs)
  /\ lastOp' = Step("tick", "fills", tk.h)
  /\ UNCHANGED <<factoryVars, retryRun, watch>>
  /\ UNCHANGED <<registryVars, initPc, adapters, storeVars, loopVars, creates, cancels,
                 cleanups, countVars, nextSecret, histVars>>

\* sdk.getReadyToAcceptSecretFills rejects (404 or any other error): the
\* callback ends.
TickFillsRejected(tk) ==
  /\ tk \in BagToSet(ticks)
  /\ tk.pc = "fills"
  /\ ticks' = BagRemove(ticks, tk)
  /\ lastOp' = Step("tick", "fillsFailed", tk.h)
  /\ UNCHANGED <<factoryVars, retryRun, watch>>
  /\ UNCHANGED <<registryVars, initPc, adapters, storeVars, loopVars, creates, cancels,
                 cleanups, countVars, nextSecret, histVars>>

SubmitKey(tk) ==
  <<tk.h, tk.ready[tk.j].idx, SecretAt(tk.secrets, tk.ready[tk.j].idx)>>

CountAfterSubmit(key) ==
  MapSet(submitted, key, IF key \in DOMAIN submitted THEN submitted[key] + 1 ELSE 1)

\* sdk.submitSecret resolves: the order is looked up again and the Fill is
\* pushed; then the loop goes on with the next entry.
TickSubmitResolved(tk) ==
  /\ tk \in BagToSet(ticks)
  /\ tk.pc = "submit"
  /\ submitted' = CountAfterSubmit(SubmitKey(tk))
  /\ orderObjs' = IF tk.h \in DOMAIN activeOrders
                    THEN [orderObjs EXCEPT ![activeOrders[tk.h]].fills =
                                             Append(@, FillRecord(tk.ready[tk.j]))]
                    ELSE orderObjs
  /\ ticks' = TicksSubmitNext(BagRemove(ticks, tk), tk, tk.ready, tk.j + 1, orderObjs')
  /\ lastOp' = Step("tick", "submitted", tk.h)
  /\ UNCHANGED <<factoryVars, retryRun, watch>>
  /\ UNCHANGED <<registryVars, initPc, adapters, activeOrders, orderSecrets, loopVars,
                 creates, cancels, cleanups, countVars, nextSecret, discarded, cancelled>>

\* Faulty variant of TickSubmitRejected: the order is given up after a
\* submission error; its secrets are dropped, so later ticks submit nothing.
TickSubmitRejectedForgets(tk) ==
  /\ tk \in BagToSet(ticks)
  /\ tk.pc = "submit"
  /\ ticks' = BagRemove(ticks, tk)
  /\ orderSecrets' = MapDelete(orderSecrets, tk.h)
  /\ lastOp' = Step("tick", "submitFailed", tk.h)
  /\ UNCHANGED <<factoryVars, retryRun, watch>>
  /\ UNCHANGED <<registryVars, initPc, adapters, orderObjs, activeOrders, loopVars,
                 creates, cancels, cleanups, countVars, nextSecret, histVars>>

\* Faulty variant of TickSubmitRejected: the first submission error ends the
\* loop over the fills.
TickSubmitRejectedAborts(tk) ==
  /\ tk \in BagToSet(ticks)
  /\ tk.pc = "submit"
  /\ ticks' = BagRemove(ticks, tk)
  /\ lastOp' = Step("tick", "submitFailed", tk.h)
  /\ UNCHANGED <<factoryVars, retryRun, watch>>
  /\ UNCHANGED <<registryVars, initPc, adapters, storeVars, loopVars, creates, cancels,
                 cleanups, countVars, nextSecret, histVars>>

\* Faulty variant of TickSubmitRejected: a submission error stops the loop.
TickSubmitRejectedStops(tk) ==
  /\ tk \in BagToSet(ticks)
  /\ tk.pc = "submit"
  /\ ticks' = BagRemove(ticks, tk)
  /\ timers' = TimersAfterStop(tk.h)
  /\ pollingIntervals' = IntervalsAfterStop(tk.h)
  /\ lastOp' = Step("tick", "submitFailed", tk.h)
  /\ UNCHANGED <<factoryVars, retryRun, watch>>
  /\ UNCHANGED <<registryVars, initPc, adapters, storeVars, creates, cancels,
                 cleanups, countVars, nextSecret, histVars>>

\* sdk.submitSecret rejects: logged; the loop goes on with the next entry.
TickSubmitRejected(tk) ==
  /\ tk \in BagToSet(ticks)
  /\ tk.pc = "submit"
  /\ ticks' = TicksSubmitNext(BagRemove(ticks, tk), tk, tk.ready, tk.j + 1, orderObjs)
  /\ lastOp' = Step("tick", "submitFailed", tk.h)
  /\ UNCHANGED <<factoryVars, retryRun, watch>>
  /\ UNCHANGED <<registryVars, initPc, adapters, storeVars, loopVars, creates, cancels,
                 cleanups, countVars, nextSecret, histVars>>

(***************************************************************************)
(* GeneralizedFusionOrderManager.cancelOrder.                              *)
(***************************************************************************)
\* The call: the order and its source-chain adapter are looked up and the
\* adapter's cancelOrder is sent.
CancelOrderCall(h) ==
  /\ nCalls < MaxCalls
  /\ InFlight < MaxInFlight
  /\ nCalls' = nCalls + 1
  /\ IF h \notin DOMAIN activeOrders
       THEN /\ lastOp' = Step("cancelOrder", "OrderNotFound", h)
            /\ cancels' = cancels
       ELSE IF ~HasAdapter(orderObjs[activeOrders[h]].srcChain)
       THEN /\ lastOp' = Step("cancelOrder", "NoAdapter", h)
            /\ cancels' = cancels
       ELSE /\ lastOp' = Step("cancelOrder", "awaitCancel", h)
            /\ cancels' = BagAdd(cancels, [h |-> h, obj |-> activeOrders[h]])
  /\ UNCHANGED <<factoryVars, retryRun, watch>>
  /\ UNCHANGED <<registryVars, initPc, adapters, storeVars, loopVars, creates, ticks,
                 cleanups, nTicks, nextSecret, histVars>>

\* srcAdapter.cancelOrder resolves: CANCELLED, monitoring stopped.
CancelResolved(c) ==
  /\ c \in BagToSet(cancels)
  /\ cancels' = BagRemove(cancels, c)
  /\ orderObjs' = [orderObjs EXCEPT ![c.obj].status = CANCELLED]
  /\ timers' = TimersAfterStop(c.h)
  /\ pollingIntervals' = IntervalsAfterStop(c.h)
  /\ cancelled' = cancelled \cup {c.h}
  /\ lastOp' = Step("cancelOrder", "ok", c.h)
  /\ UNCHANGED <<factoryVars, retryRun, watch>>
  /\ UNCHANGED <<registryVars, initPc, adapters, activeOrders, orderSecrets, creates,
                 ticks, cleanups, countVars, nextSecret, submitted, discarded>>

\* Faulty variant of CancelRejected: the status is assigned and the loop
\* stopped before the adapter's answer is known.
CancelRejectedMarks(c) ==
  /\ c \in BagToSet(cancels)
  /\ cancels' = BagRemove(cancels, c)
  /\ orderObjs' = [orderObjs EXCEPT ![c.obj].status = CANCELLED]
  /\ timers' = TimersAfterStop(c.h)
  /\ pollingIntervals' = IntervalsAfterStop(c.h)
  /\ lastOp' = Step("cancelOrder", "CancelFailed", c.h)
  /\ UNCHANGED <<factoryVars, retryRun, watch>>
  /\ UNCHANGED <<registryVars, initPc, adapters, activeOrders, orderSecrets, creates,
                 ticks, cleanups, countVars, nextSecret, histVars>>

\* srcAdapter.cancelOrder rejects: logged and rethrown.
CancelRejected(c) ==
  /\ c \in BagToSet(cancels)
  /\ cancels' = BagRemove(cancels, c)
  /\ lastOp' = Step("cancelOrder", "CancelFailed", c.h)
  /\ UNCHANGED <<factoryVars, retryRun, watch>>
  /\ UNCHANGED <<registryVars, initPc, adapters, storeVars, loopVars, creates, ticks,
                 cleanups, countVars, nextSecret, histVars>>

(***************************************************************************)
(* GeneralizedFusionOrderManager.cleanup.                                  *)
(***************************************************************************)
\* The iterator of the loop over the adapters, at place p of the list, moves
\* to the next entry that is present.
RECURSIVE NextAdapterPos(_)
NextAdapterPos(p) ==
  IF p > Len(adapters) THEN p
  ELSE IF adapters[p].live THEN p
  ELSE NextAdapterPos(p + 1)

\* Faulty variant of CleanupReach: the loop over the adapters is left after
\* the first place of the list.
CleanupReachFirstOnly(bag, p) ==
  LET q == NextAdapterPos(p) IN
  IF q <= Len(adapters) /\ q = 1
    THEN /\ cleanups' = BagAdd(bag, [pos |-> q])
         /\ inst' = [inst EXCEPT ![adapters[q].inst].connected = FALSE]
         /\ UNCHANGED <<adapters, activeOrders, orderSecrets>>
    ELSE /\ cleanups' = bag
         /\ adapters' = AdaptersClear
         /\ activeOrders' = EmptyMap
         /\ orderSecrets' = EmptyMap
         /\ inst' = inst

\* The loop over the adapters (a live Map iteration) goes on from place p:
\* disconnect is called on the next adapter, or the three tables are cleared.
\* BaseChainAdapter.disconnect drops the connected flag when it is called.
CleanupReach(bag, p) ==
  LET q == NextAdapterPos(p) IN
  IF q <= Len(adapters)
    THEN /\ cleanups' = BagAdd(bag, [pos |-> q])
         /\ inst' = [inst EXCEPT ![adapters[q].inst].connected = FALSE]
         /\ UNCHANGED <<adapters, activeOrders, orderSecrets>>
    ELSE /\ cleanups' = bag
         /\ adapters' = AdaptersClear
         /\ activeOrders' = EmptyMap
         /\ orderSecrets' = EmptyMap
         /\ inst' = inst

\* The call: every registered loop is stopped, then the adapter loop starts.
CleanupCall ==
  /\ nCalls < MaxCalls
  /\ InFlight < MaxInFlight
  /\ nCalls' = nCalls + 1
  /\ timers' = [t \in DOMAIN timers |->
                  IF t \in Range(pollingIntervals)
                    THEN [timers[t] EXCEPT !.live = FALSE] ELSE timers[t]]
  /\ pollingIntervals' = EmptyMap
  /\ CleanupReach(cleanups, 1)
  /\ lastOp' = Step("cleanup", IF cleanups' = cleanups THEN "done" ELSE "disconnecting", 0)
  /\ UNCHANGED <<factoryVars, retryRun, watch>>
  /\ UNCHANGED <<factories, instances, initPc, orderObjs, creates, cancels, ticks,
                 nTicks, nextSecret, histVars>>

\* adapter.disconnect resolves, or rejects and is logged: the loop moves on.
CleanupResume(c) ==
  /\ c \in BagToSet(cleanups)
  /\ CleanupReach(BagRemove(cleanups, c), c.pos + 1)
  /\ lastOp' = Step("cleanup",
                    IF BagCardinality(cleanups') < BagCardinality(cleanups)
                      THEN "done" ELSE "disconnecting", 0)
  /\ UNCHANGED <<factoryVars, retryRun, watch>>
  /\ UNCHANGED <<factories, instances, initPc, orderObjs, loopVars, creates, cancels,
                 ticks, countVars, nextSecret, histVars>>

(***************************************************************************)
(* The state after `new GeneralizedFusionOrderManager(config)` returns:    *)
(* initializeAdapters has run up to its first await.                       *)
(***************************************************************************)
Init ==
  /\ factories = DefaultRegistered
  /\ instances = (ConfigChains[1] :> 1)
  /\ inst = <<[chain |-> ConfigChains[1], connected |-> FALSE]>>
  /\ initPc = [pos |-> 1, pc |-> "connecting"]
  /\ adapters = <<>>
  /\ orderObjs = <<>>
  /\ activeOrders = EmptyMap
  /\ orderSecrets = EmptyMap
  /\ pollingIntervals = EmptyMap
  /\ timers = <<>>
  /\ creates = EmptyBag
  /\ cancels = EmptyBag
  /\ ticks = EmptyBag
  /\ cleanups = EmptyBag
  /\ nCalls = 0
  /\ nTicks = 0
  /\ nextSecret = 0
  /\ submitted = EmptyMap
  /\ discarded = {}
  /\ cancelled = {}
  /\ lastOp = Step("new", "constructed", 0)
  \* The registry history and the retry call are followed by the
  \* specifications of the registry and of retry below.
  /\ factoryIds = [c \in DefaultRegistered |-> 0]
  /\ madeBy = <<0>>
  /\ returned = EmptyMap
  /\ mgrAdapters = <<>>
  /\ nRegOps = 0
  /\ retryRun = [pc |-> "none"]
  /\ watch = NoWatch

Next ==
  \/ InitConnectResolved
  \/ InitConnectRejected
  \/ \E p \in ChainPairs, a \in Amounts : CreateOrderCall(p[1], p[2], a)
  \/ \E c \in BagToSet(creates), n \in SecretCounts : CreateQuoteResolved(c, n)
  \/ \E c \in BagToSet(creates) : CreateQuoteRejected(c)
  \/ \E c \in BagToSet(creates) : CreatePlaceResolved(c)
  \/ \E c \in BagToSet(creates) : CreatePlaceRejected(c)
  \/ \E t \in DOMAIN timers : TickFire(t)
  \/ \E tk \in BagToSet(ticks), s \in StatusResponses : TickStatusResolved(tk, s)
  \/ \E tk \in BagToSet(ticks) : TickStatusRejected(tk)
  \/ \E tk \in BagToSet(ticks), r \in ReadyResponses : TickFillsResolved(tk, r)
  \/ \E tk \in BagToSet(ticks) : TickFillsRejected(tk)
  \/ \E tk \in BagToSet(ticks) : TickSubmitResolved(tk)
  \/ \E tk \in BagToSet(ticks) : TickSubmitRejected(tk)
  \/ \E h \in OrderHashes : CancelOrderCall(h)
  \/ \E c \in BagToSet(cancels) : CancelResolved(c)
  \/ \E c \in BagToSet(cancels) : CancelRejected(c)
  \/ CleanupCall
  \/ \E c \in BagToSet(cleanups) : CleanupResume(c)

Spec == Init /\ [][Next]_vars

(***************************************************************************)
(* The state in which no manager has been built: the registry singleton as *)
(* the module load leaves it, and nothing else.                            *)
(***************************************************************************)
managerVars == <<initPc, adapters, storeVars, loopVars, callVars, countVars,
                 nextSecret, histVars>>

NoManager ==
  /\ initPc = [pos |-> 0, pc |-> "none"]
  /\ adapters = <<>>
  /\ orderObjs = <<>>
  /\ activeOrders = EmptyMap
  /\ orderSecrets = EmptyMap
  /\ pollingIntervals = EmptyMap
  /\ timers = <<>>
  /\ creates = EmptyBag
  /\ cancels = EmptyBag
  /\ ticks = EmptyBag
  /\ cleanups = EmptyBag
  /\ nCalls = 0
  /\ nTicks = 0
  /\ nextSecret = 0
  /\ submitted = EmptyMap
  /\ discarded = {}
  /\ cancelled = {}

RegistryLoaded ==
  /\ factories = DefaultRegistered
  /\ instances = EmptyMap
  /\ inst = <<>>
  /\ factoryIds = [c \in DefaultRegistered |-> 0]
  /\ madeBy = <<>>
  /\ returned = EmptyMap
  /\ mgrAdapters = [m \in Managers |-> [seen |-> {}, held |-> EmptyMap]]
  /\ nRegOps = 0

(***************************************************************************)
(* fusionUtils.retry(operation, maxRetries, delay), one call of it.        *)
(* retryRun holds the arguments, the locals i and lastError, where the     *)
(* call is (pc), what it returned or threw, and its history: the outcome   *)
(* of every attempt (log), the invocations of the operation (invoked) and  *)
(* the backoff waits (slept).                                              *)
(***************************************************************************)
\* let lastError: declared and not assigned.
UndefinedError == "undefined"

\* Faulty variant of LoopRuns: the loop gives up after two attempts.
LoopRunsTwice(i, maxRetries) == i < maxRetries /\ i < 2

\* The condition of the for loop.
LoopRuns(i, maxRetries) == i < maxRetries

\* delay * Math.pow(2, i).
Backoff(delay, i) == delay * (2 ^ i)

\* The loop comes to its condition with the counter at i: the operation is
\* invoked, or the loop is left and lastError is thrown.
RetryLoop(run, i) ==
  IF LoopRuns(i, run.maxRetries)
    THEN [run EXCEPT !.i = i, !.pc = "attempt", !.invoked = @ + 1]
    ELSE [run EXCEPT !.i = i, !.pc = "thrown", !.thrown = run.lastError]

\* The call, up to its first await.
RetryEnter(maxRetries, delay) ==
  RetryLoop([maxRetries |-> maxRetries, delay |-> delay, i |-> 0, pc |-> "called",
             lastError |-> UndefinedError, result |-> "", thrown |-> "",
             log |-> <<>>, invoked |-> 0, slept |-> <<>>], 0)

\* await operation() resolves: its value is returned.
RetryAttemptResolved(v) ==
  /\ retryRun.pc = "attempt"
  /\ retryRun' = [retryRun EXCEPT !.pc = "returned", !.result = v,
                                  !.log = Append(@, [ok |-> TRUE, v |-> v])]
  /\ UNCHANGED <<registryVars, managerVars, factoryVars, lastOp, watch>>

\* await operation() rejects: the error is kept, and then either the
\* backoff wait starts or the loop goes on at once.
RetryAttemptRejected(e) ==
  /\ retryRun.pc = "attempt"
  /\ LET failed == [retryRun EXCEPT !.lastError = e,
                                    !.log = Append(@, [ok |-> FALSE, v |-> e])]
     IN retryRun' =
          IF RetryAgain(retryRun.i, retryRun.maxRetries)
            THEN [failed EXCEPT !.pc = "sleep",
                                !.slept = Append(@, Backoff(retryRun.delay, retryRun.i))]
            ELSE RetryLoop(failed, retryRun.i + 1)
  /\ UNCHANGED <<registryVars, managerVars, factoryVars, lastOp, watch>>

\* await sleep(...) resolves: i++ and the loop goes on.
RetrySleepDone ==
  /\ retryRun.pc = "sleep"
  /\ retryRun' = RetryLoop(retryRun, retryRun.i + 1)
  /\ UNCHANGED <<registryVars, managerVars, factoryVars, lastOp, watch>>

InitRetry ==
  /\ NoManager
  /\ RegistryLoaded
  /\ lastOp = Step("retry", "called", 0)
  /\ retryRun \in { RetryEnter(m, d) : m \in RetryCounts, d \in Delays }
  /\ watch = NoWatch

NextRetry ==
  \/ \E v \in Values : RetryAttemptResolved(v)
  \/ \E e \in Errors : RetryAttemptRejected(e)
  \/ RetrySleepDone

SpecRetry == InitRetry /\ [][NextRetry]_vars

\* The operation's promises settle and the timers of sleep fire.
FairSpecRetry == SpecRetry /\ WF_vars(NextRetry)

(***************************************************************************)
(* The ChainAdapterFactory singleton under registerAdapter, createAdapter  *)
(* and clearCache, with managers that connect the adapters they get from   *)
(* it (initializeAdapters) and disconnect them (cleanup).  The registry's  *)
(* methods are synchronous; a manager's step is taken with an adapter      *)
(* whose connect and disconnect complete at once, as BaseChainAdapter's.   *)
(* `new AdapterClass()` is taken to build the adapter of the registered    *)
(* function.                                                               *)
(***************************************************************************)
\* const key = chainId.toString().
toString(id) == id.key

RegOp(op, outcome, key, a) == [op |-> op, outcome |-> outcome, key |-> key, inst |-> a]

\* The function that built each adapter object, after createAdapter(key).
MadeByAfterCreate(key) ==
  IF key \in DOMAIN instances THEN madeBy ELSE Append(madeBy, factoryIds[key])

\* Faulty variant of RegCreateAdapter: the cache entry is made before the
\* registered function is looked up.
RegCreateAdapterCachesFirst(id) ==
  /\ nRegOps < MaxRegOps
  /\ nRegOps' = nRegOps + 1
  /\ LET key == toString(id) IN
     IF CanCreate(key)
       THEN /\ instances' = InstancesAfterCreate(key)
            /\ inst' = InstAfterCreate(key)
            /\ madeBy' = MadeByAfterCreate(key)
            /\ returned' = MapSet(returned, key, instances'[key])
            /\ lastOp' = RegOp("createAdapter", "ok", key, instances'[key])
       ELSE /\ lastOp' = RegOp("createAdapter", "UnsupportedChain", key, 0)
            /\ instances' = MapSet(instances, key, 0)
            /\ UNCHANGED <<inst, madeBy, returned>>
  /\ UNCHANGED <<factories, factoryIds, mgrAdapters, managerVars, retryRun, watch>>

\* createAdapter(id), called by any client of the registry.
RegCreateAdapter(id) ==
  /\ nRegOps < MaxRegOps
  /\ nRegOps' = nRegOps + 1
  /\ LET key == toString(id) IN
     IF CanCreate(key)
       THEN /\ instances' = InstancesAfterCreate(key)
            /\ inst' = InstAfterCreate(key)
            /\ madeBy' = MadeByAfterCreate(key)
            /\ returned' = MapSet(returned, key, instances'[key])
            /\ lastOp' = RegOp("createAdapter", "ok", key, instances'[key])
       ELSE /\ lastOp' = RegOp("createAdapter", "UnsupportedChain", key, 0)
            /\ UNCHANGED <<instances, inst, madeBy, returned>>
  /\ UNCHANGED <<factories, factoryIds, mgrAdapters, managerVars, retryRun, watch>>

\* Faulty variant of InstancesAfterRegister: the cached instance is kept.
InstancesAfterRegisterKept(key) == instances

\* if (this.instances.has(key)) this.instances.delete(key).
InstancesAfterRegister(key) ==
  IF key \in DOMAIN instances THEN MapDelete(instances, key) ELSE instances

\* registerAdapter(id, adapterFactory) with a function not registered before.
RegisterAdapter(id) ==
  /\ nRegOps < MaxRegOps
  /\ nRegOps' = nRegOps + 1
  /\ LET key == toString(id) IN
     /\ factories' = factories \cup {key}
     /\ factoryIds' = MapSet(factoryIds, key, nRegOps + 1)
     /\ instances' = InstancesAfterRegister(key)
     /\ returned' = IF key \in DOMAIN returned THEN MapDelete(returned, key) ELSE returned
     /\ lastOp' = RegOp("registerAdapter", "ok", key, 0)
  /\ UNCHANGED <<inst, madeBy, mgrAdapters, managerVars, retryRun, watch>>

\* clearCache().
ClearCache ==
  /\ nRegOps < MaxRegOps
  /\ nRegOps' = nRegOps + 1
  /\ instances' = EmptyMap
  /\ returned' = EmptyMap
  /\ lastOp' = RegOp("clearCache", "ok", "", 0)
  /\ UNCHANGED <<factories, factoryIds, inst, madeBy, mgrAdapters, managerVars, retryRun, watch>>

\* One round of initializeAdapters of manager m, for a chain id of its
\* configuration that has an adapter: createAdapter, connect, adapters.set
\* under the id as configured.
ManagerInitChain(m, id) ==
  /\ nRegOps < MaxRegOps
  /\ nRegOps' = nRegOps + 1
  /\ id \notin mgrAdapters[m].seen
  /\ LET key == toString(id) IN
     /\ CanCreate(key)
     /\ instances' = InstancesAfterCreate(key)
     /\ inst' = [InstAfterCreate(key) EXCEPT ![instances'[key]].connected = TRUE]
     /\ madeBy' = MadeByAfterCreate(key)
     /\ returned' = MapSet(returned, key, instances'[key])
     /\ mgrAdapters' = [mgrAdapters EXCEPT ![m].seen = @ \cup {id},
                                           ![m].held = MapSet(@, id, instances'[key])]
     /\ lastOp' = RegOp("initializeAdapters", "connected", key, instances'[key])
  /\ UNCHANGED <<factories, factoryIds, managerVars, retryRun, watch>>

\* cleanup of manager m: disconnect on each of its adapters, adapters.clear.
ManagerCleanup(m) ==
  /\ nRegOps < MaxRegOps
  /\ nRegOps' = nRegOps + 1
  /\ inst' = [a \in DOMAIN inst |->
                IF a \in Range(mgrAdapters[m].held)
                  THEN [inst[a] EXCEPT !.connected = FALSE] ELSE inst[a]]
  /\ mgrAdapters' = [mgrAdapters EXCEPT ![m].held = EmptyMap]
  /\ lastOp' = RegOp("cleanup", "done", "", 0)
  /\ UNCHANGED <<factories, factoryIds, instances, madeBy, returned, managerVars, retryRun, watch>>

InitRegistry ==
  /\ NoManager
  /\ RegistryLoaded
  /\ lastOp = RegOp("load", "ok", "", 0)
  /\ retryRun = [pc |-> "none"]
  /\ watch = NoWatch

NextRegistry ==
  \/ \E id \in RegistryIds : RegCreateAdapter(id)
  \/ \E id \in RegistryIds : RegisterAdapter(id)
  \/ ClearCache
  \/ \E m \in Managers, id \in RegistryIds : ManagerInitChain(m, id)
  \/ \E m \in Managers : ManagerCleanup(m)

SpecRegistry == InitRegistry /\ [][NextRegistry]_vars

(***************************************************************************)
(* The end-to-end scenario: one manager whose adapters connect, one order  *)
(* S -> D placed with a quote of secretsCount 1, and E2ETicks ticks one    *)
(* after the other.  The Settlement Service answers as the scenario says:  *)
(* no status change and no ready fill up to the tick before the last,      *)
(* which is told that index 0 is ready; the last tick is told executed.    *)
(* The steps are the manager's own actions.                                *)
(***************************************************************************)
\* Ticks fired so far in the scenario (nTicks starts E2ETicks below MaxTicks).
E2ETick == nTicks - (MaxTicks - E2ETicks)

E2EInitConnect == InitConnectResolved

\* createOrder(S -> D, 1000), as long as no order is placed; called before
\* both adapters are connected it fails and is called again.
E2ECreateOrderCall ==
  /\ orderObjs = <<>>
  /\ creates = EmptyBag
  /\ CreateOrderCall("S", "D", 1000)

E2EQuoteResolved == \E c \in BagToSet(creates) : CreateQuoteResolved(c, 1)

E2EQuoteRejected == \E c \in BagToSet(creates) : CreateQuoteRejected(c)

E2EPlaceResolved == \E c \in BagToSet(creates) : CreatePlaceResolved(c)

E2EPlaceRejected == \E c \in BagToSet(creates) : CreatePlaceRejected(c)

\* The interval elapses after the tick before it has ended.
E2ETickFire ==
  /\ ticks = EmptyBag
  /\ \E t \in DOMAIN timers : TickFire(t)

E2EStatusAnswer == IF E2ETick = E2ETicks THEN "executed" ELSE "pending"

E2ETickStatus == \E tk \in BagToSet(ticks) : TickStatusResolved(tk, E2EStatusAnswer)

E2EReadyAnswer == IF E2ETick = E2ETicks - 1 THEN <<ReadyEntry(0)>> ELSE <<>>

E2ETickFills == \E tk \in BagToSet(ticks) : TickFillsResolved(tk, E2EReadyAnswer)

\* Nothing ready, answered as not found.
E2ETickFillsNotFound ==
  /\ E2EReadyAnswer = <<>>
  /\ \E tk \in BagToSet(ticks) : TickFillsRejected(tk)

E2ETickSubmit == \E tk \in BagToSet(ticks) : TickSubmitResolved(tk)

InitE2E ==
  /\ factories = DefaultRegistered
  /\ instances = (ConfigChains[1] :> 1)
  /\ inst = <<[chain |-> ConfigChains[1], connected |-> FALSE]>>
  /\ initPc = [pos |-> 1, pc |-> "connecting"]
  /\ adapters = <<>>
  /\ orderObjs = <<>>
  /\ activeOrders = EmptyMap
  /\ orderSecrets = EmptyMap
  /\ pollingIntervals = EmptyMap
  /\ timers = <<>>
  /\ creates = EmptyBag
  /\ cancels = EmptyBag
  /\ ticks = EmptyBag
  /\ cleanups = EmptyBag
  /\ nCalls = 0
  /\ nTicks = MaxTicks - E2ETicks
  /\ nextSecret = 0
  /\ submitted = EmptyMap
  /\ discarded = {}
  /\ cancelled = {}
  /\ lastOp = Step("new", "constructed", 0)
  /\ factoryIds = [c \in DefaultRegistered |-> 0]
  /\ madeBy = <<0>>
  /\ returned = EmptyMap
  /\ mgrAdapters = <<>>
  /\ nRegOps = 0
  /\ retryRun = [pc |-> "none"]
  /\ watch = NoWatch

NextE2E ==
  \/ E2EInitConnect
  \/ E2ECreateOrderCall
  \/ E2EQuoteResolved
  \/ E2EQuoteRejected
  \/ E2EPlaceResolved
  \/ E2EPlaceRejected
  \/ E2ETickFire
  \/ E2ETickStatus
  \/ E2ETickFills
  \/ E2ETickFillsNotFound
  \/ E2ETickSubmit

SpecE2E == InitE2E /\ [][NextE2E]_vars

(***************************************************************************)
(* The monitoring loop of one order, with no bound on its ticks: a manager *)
(* whose adapters connect, one order S -> D, its interval callbacks, and   *)
(* calls of cancelOrder for it.  The Settlement Service answers as it      *)
(* likes, except that it stops listing an index as ready once it has       *)
(* accepted a secret for it.  The steps are the manager's own actions.     *)
(***************************************************************************)
\* The hash the Settlement Service gives the one order of this specification.
LoopOrder == 1

\* The Settlement Service has accepted a secret for index idx of order h.
Accepted(h, idx) == \E key \in DOMAIN submitted : key[1] = h /\ key[2] = idx

\* Fill-readiness responses for order h: of the first n indices, those no
\* secret has been accepted for.
LoopReadyResponses(h) ==
  { SelectSeq(r, LAMBDA e : ~Accepted(h, e.idx)) : r \in ReadyResponses }

LoopInitConnect == InitConnectResolved

LoopCreateOrderCall ==
  /\ orderObjs = <<>>
  /\ creates = EmptyBag
  /\ CreateOrderCall("S", "D", 1000)

LoopQuoteResolved ==
  \E c \in BagToSet(creates), n \in SecretCounts : CreateQuoteResolved(c, n)

LoopPlaceResolved == \E c \in BagToSet(creates) : CreatePlaceResolved(c)

\* setInterval calls the callback again and again while the timer is live.
LoopTickFire ==
  /\ \E t \in DOMAIN timers : TickStart(t)
  /\ nTicks' = nTicks

\* A pending getOrderStatus settles.
LoopStatusAnswer ==
  \E tk \in BagToSet(ticks) :
    \/ \E s \in StatusResponses : TickStatusResolved(tk, s)
    \/ TickStatusRejected(tk)

\* A pending getReadyToAcceptSecretFills settles.
LoopFillsAnswer ==
  \E tk \in BagToSet(ticks) :
    \/ \E r \in LoopReadyResponses(tk.h) : TickFillsResolved(tk, r)
    \/ TickFillsRejected(tk)

\* A pending submitSecret settles.
LoopSubmitAnswer ==
  \E tk \in BagToSet(ticks) :
    \/ TickSubmitResolved(tk)
    \/ TickSubmitRejected(tk)

LoopCancelCall ==
  /\ LoopOrder \in DOMAIN activeOrders
  /\ CancelOrderCall(LoopOrder)

\* A pending cancelOrder of the adapter settles.
LoopCancelAnswer ==
  \E c \in BagToSet(cancels) :
    \/ CancelResolved(c)
    \/ CancelRejected(c)

NextLoop ==
  \/ LoopInitConnect
  \/ LoopCreateOrderCall
  \/ LoopQuoteResolved
  \/ LoopPlaceResolved
  \/ LoopTickFire
  \/ LoopStatusAnswer
  \/ LoopFillsAnswer
  \/ LoopSubmitAnswer
  \/ LoopCancelCall
  \/ LoopCancelAnswer

SpecLoop == Init /\ [][NextLoop]_vars

\* A live timer keeps firing and every pending request settles.
FairSpecLoop ==
  /\ SpecLoop
  /\ WF_vars(LoopTickFire)
  /\ WF_vars(LoopStatusAnswer)
  /\ WF_vars(LoopFillsAnswer)
  /\ WF_vars(LoopSubmitAnswer)
  /\ WF_vars(LoopCancelAnswer)

(***************************************************************************)
(* The manager with a Settlement Service whose placeOrder may answer with  *)
(* an order hash that is already in the order table: orders S -> D, their  *)
(* ticks, cancelOrder and cleanup.  The steps are the manager's own        *)
(* actions; every request settles successfully.                            *)
(***************************************************************************)
\* What placeOrder may answer: a hash of the order's own, or one in the table.
PlaceHashes == {FreshOrderHash} \cup DOMAIN activeOrders

DupInitConnect == InitConnectResolved

DupCreateOrderCall == CreateOrderCall("S", "D", 1000)

DupQuoteResolved ==
  \E c \in BagToSet(creates), n \in SecretCounts : CreateQuoteResolved(c, n)

DupPlaceResolved ==
  \E c \in BagToSet(creates), h \in PlaceHashes : CreatePlaceStored(c, h)

DupTickFire == \E t \in DOMAIN timers : TickFire(t)

DupTickStatus ==
  \E tk \in BagToSet(ticks), s \in StatusResponses : TickStatusResolved(tk, s)

DupTickFills ==
  \E tk \in BagToSet(ticks), r \in ReadyResponses : TickFillsResolved(tk, r)

DupTickSubmit == \E tk \in BagToSet(ticks) : TickSubmitResolved(tk)

DupCancelOrderCall == \E h \in DOMAIN activeOrders : CancelOrderCall(h)

DupCancelResolved == \E c \in BagToSet(cancels) : CancelResolved(c)

DupCleanupCall == CleanupCall

DupCleanupResume == \E c \in BagToSet(cleanups) : CleanupResume(c)

NextDup ==
  \/ DupInitConnect
  \/ DupCreateOrderCall
  \/ DupQuoteResolved
  \/ DupPlaceResolved
  \/ DupTickFire
  \/ DupTickStatus
  \/ DupTickFills
  \/ DupTickSubmit
  \/ DupCancelOrderCall
  \/ DupCancelResolved
  \/ DupCleanupCall
  \/ DupCleanupResume

SpecDup == Init /\ [][NextDup]_vars

(***************************************************************************)
(* TransactionWatcher.watch(transactionHash, onStatusChange), one call of  *)
(* it.  watch holds the interval timer (live), the interval callbacks      *)
(* suspended at await getTransactionStatus (polls; they are all alike, so  *)
(* their number is kept), the callbacks started so far (fired) and the     *)
(* statuses onStatusChange has been invoked with (calls).                  *)
(***************************************************************************)
\* enum TransactionStatus.
TransactionStatuses == {"PENDING", "CONFIRMED", "FAILED"}

\* status === CONFIRMED || status === FAILED.
WatchTerminal(s) == s \in {"CONFIRMED", "FAILED"}

\* watch has returned: the interval is set and nothing else has happened.
WatchEnter == [pc |-> "watching", live |-> TRUE, polls |-> 0, fired |-> 0, calls |-> <<>>]

\* The interval elapses: the callback starts and sends getTransactionStatus,
\* whether or not an earlier callback is still waiting for its answer.
WatchTick ==
  /\ watch.pc = "watching"
  /\ watch.live
  /\ watch.fired < MaxWatchTicks
  /\ watch' = [watch EXCEPT !.polls = @ + 1, !.fired = @ + 1]
  /\ UNCHANGED <<registryVars, managerVars, factoryVars, retryRun, lastOp>>

\* getTransactionStatus resolves with s: onStatusChange(s), then
\* clearInterval for CONFIRMED and FAILED.
WatchStatusResolved(s) ==
  /\ watch.pc = "watching"
  /\ watch.polls > 0
  /\ watch' = [watch EXCEPT !.polls = @ - 1,
                            !.calls = Append(@, s),
                            !.live = IF WatchTerminal(s) THEN FALSE ELSE @]
  /\ UNCHANGED <<registryVars, managerVars, factoryVars, retryRun, lastOp>>

\* getTransactionStatus rejects: logged, clearInterval.
WatchStatusRejected ==
  /\ watch.pc = "watching"
  /\ watch.polls > 0
  /\ watch' = [watch EXCEPT !.polls = @ - 1, !.live = FALSE]
  /\ UNCHANGED <<registryVars, managerVars, factoryVars, retryRun, lastOp>>

InitWatch ==
  /\ NoManager
  /\ RegistryLoaded
  /\ lastOp = Step("watch", "called", 0)
  /\ retryRun = [pc |-> "none"]
  /\ watch = WatchEnter

NextWatch ==
  \/ WatchTick
  \/ \E s \in TransactionStatuses : WatchStatusResolved(s)
  \/ WatchStatusRejected

SpecWatch == InitWatch /\ [][NextWatch]_vars

(***************************************************************************)
(* Properties.                                                             *)
(***************************************************************************)
Stored(h) == orderObjs[activeOrders[h]]

Terminal(status) == status \in {EXECUTED, CANCELLED}

LiveTimersOf(h, tms) == { t \in DOMAIN tms : tms[t].live /\ tms[t].order = h }

CreateCallStep(op) == op.op = "createOrder" /\ op.outcome \in {"UnsupportedChainPair", "awaitQuote"}

\* C1: no two Fill records of one order ever share the same idx, whatever
\* the fill-readiness query reports over consecutive or overlapping ticks.
C1_FillIndexUnique ==
  \A k \in DOMAIN orderObjs :
    \A i, j \in DOMAIN orderObjs[k].fills :
      i # j => orderObjs[k].fills[i].idx # orderObjs[k].fills[j].idx

\* C2: submitSecret is never sent for an index the order already has a Fill
\* record of, and each (order, index) secret is submitted successfully at
\* most once.
C2_SubmitGuardedByFills ==
  /\ \A tk \in BagToSet(ticks) : tk.pc = "submit" => ~tk.recorded
  /\ \A key \in DOMAIN submitted : submitted[key] <= 1

\* C3: once a stored order is EXECUTED or CANCELLED its status never changes
\* again, under any later tick, cancelOrder or status response.
C3_NoStatusRegression ==
  [][\A h \in (DOMAIN activeOrders) \cap (DOMAIN activeOrders') :
       Terminal(Stored(h).status)
         => orderObjs'[activeOrders'[h]].status = Stored(h).status]_vars

\* C4: once a stored order is EXECUTED or CANCELLED its Fill sequence never
\* grows and no secret is submitted for it any more.
C4_TerminalFillsFrozen ==
  [][\A h \in (DOMAIN activeOrders) \cap (DOMAIN activeOrders') :
       Terminal(Stored(h).status)
         => /\ orderObjs'[activeOrders'[h]].fills = Stored(h).fills
            /\ \A key \in DOMAIN submitted' :
                 key[1] = h => key \in DOMAIN submitted /\ submitted'[key] = submitted[key]]_vars

\* C5: createOrder with a non-positive amount (and adapters for both chains)
\* fails with InvalidOrder and sends nothing to the Settlement Service.
C5_InvalidAmountNoNetwork ==
  /\ \A c \in BagToSet(creates) : ~AmountInvalid(c.amount)
  /\ (lastOp.op = "createOrder" /\ AmountInvalid(lastOp.amount)
        /\ lastOp.outcome # "UnsupportedChainPair")
       => (lastOp.outcome = "InvalidOrder" /\ ~lastOp.net)

\* C6: createOrder whose source or destination chain has no adapter in the
\* manager's adapter set fails with UnsupportedChainPair before any
\* Settlement Service call and leaves the order table, the secrets table and
\* the monitoring loops unchanged.
C6_UnsupportedPairFailsFast ==
  [][(CreateCallStep(lastOp') /\ (~HasAdapter(lastOp'.src) \/ ~HasAdapter(lastOp'.dst)))
       => /\ lastOp'.outcome = "UnsupportedChainPair"
          /\ ~lastOp'.net
          /\ creates' = creates
          /\ UNCHANGED <<storeVars, loopVars>>]_vars

\* C6 witness: with an order stored and an adapter for S, a createOrder to the
\* adapterless chain U has just failed with UnsupportedChainPair.
C6_Witness ==
  /\ lastOp.op = "createOrder" /\ lastOp.outcome = "UnsupportedChainPair"
  /\ lastOp.src = "S" /\ lastOp.dst = "U"
  /\ HasAdapter("S")
  /\ DOMAIN activeOrders # {}

\* C7: createOrder fails with UnsupportedChainPair whenever the source or the
\* destination adapter is not connected at the time of the call.
C7_DisconnectedAdapterRejected ==
  (CreateCallStep(lastOp) /\ (~AdapterConnected(lastOp.src) \/ ~AdapterConnected(lastOp.dst)))
    => lastOp.outcome = "UnsupportedChainPair"

\* C8: when createOrder succeeds with order id h, the store holds under h an
\* order with orderHash h, status PENDING and no fills, the secrets of this
\* call are stored under h, and exactly one monitoring loop has been started
\* and registered for h.
C8_CreateOrderPostcondition ==
  [][(lastOp'.op = "createOrder" /\ lastOp'.outcome = "ok")
       => \E c \in BagToSet(creates) :
            /\ c.pc = "place"
            /\ creates' = BagRemove(creates, c)
            /\ LET h == lastOp'.h IN
               /\ h \in DOMAIN activeOrders'
               /\ orderObjs'[activeOrders'[h]].orderHash = h
               /\ orderObjs'[activeOrders'[h]].status = PENDING
               /\ orderObjs'[activeOrders'[h]].fills = <<>>
               /\ orderObjs'[activeOrders'[h]].secrets = c.secrets
               /\ h \in DOMAIN orderSecrets'
               /\ orderSecrets'[h] = c.secrets
               /\ Len(timers') = Len(timers) + 1
               /\ h \in DOMAIN pollingIntervals'
               /\ pollingIntervals'[h] = Len(timers')
               /\ LiveTimersOf(h, timers') = {Len(timers')}]_vars

\* C8 witness: createOrder has just returned the id of a two-secret order
\* while another order is stored.
C8_Witness ==
  /\ lastOp.op = "createOrder" /\ lastOp.outcome = "ok"
  /\ lastOp.h \in DOMAIN orderSecrets
  /\ Len(orderSecrets[lastOp.h]) = 2
  /\ Cardinality(DOMAIN activeOrders) = 2

DiscardedUnused ==
  \A s \in discarded :
    /\ \A k \in DOMAIN orderObjs : s \notin Range(orderObjs[k].secrets)
    /\ \A h \in DOMAIN orderSecrets : s \notin Range(orderSecrets[h])

\* C9: when quote retrieval or placement fails after the retries, createOrder
\* fails and persists nothing: the order table, the secrets table and the
\* monitoring loops are unchanged, and the secrets generated for the failed
\* call never appear in any order.
C9_FailedCreatePersistsNothing ==
  [][/\ (lastOp'.op = "createOrder" /\ lastOp'.outcome \in {"QuoteFailed", "PlaceFailed"})
          => UNCHANGED <<storeVars, loopVars>>
     /\ DiscardedUnused']_vars

\* C9 witness: a placement has just failed for good, its secrets are dropped,
\* and an order placed earlier is stored.
C9_Witness ==
  /\ lastOp.op = "createOrder" /\ lastOp.outcome = "PlaceFailed"
  /\ discarded # {}
  /\ DOMAIN activeOrders # {}

\* C10: when cancelOrder(h) succeeds the order's status is CANCELLED and the
\* loop of h is no longer registered; from then on h has no live timer, so no
\* new tick of h fires.
C10_CancelStopsMonitoring ==
  /\ (lastOp.op = "cancelOrder" /\ lastOp.outcome = "ok" /\ lastOp.h \in DOMAIN activeOrders)
       => Stored(lastOp.h).status = CANCELLED
  /\ \A h \in cancelled :
       h \notin DOMAIN pollingIntervals /\ LiveTimersOf(h, timers) = {}

\* C10 witness: cancelOrder has just succeeded for a stored order while a tick
\* of that order is in flight.
C10_Witness ==
  /\ lastOp.op = "cancelOrder" /\ lastOp.outcome = "ok"
  /\ lastOp.h \in DOMAIN activeOrders
  /\ \E tk \in BagToSet(ticks) : tk.h = lastOp.h

CancelCallStep == lastOp'.op = "cancelOrder" /\ nCalls' = nCalls + 1

\* C11: cancelOrder called with an unknown order id fails with OrderNotFound,
\* and called for an order whose source chain has no adapter it fails too;
\* a cancelOrder that fails in either way, or because the adapter's
\* cancelOrder rejects, ends with that error and changes neither the status
\* nor the Fill sequence of any order, and the loops stay as registered.
C11_FailedCancelChangesNothing ==
  [][/\ CancelCallStep
          => /\ lastOp'.h \notin DOMAIN activeOrders => lastOp'.outcome = "OrderNotFound"
             /\ (lastOp'.h \in DOMAIN activeOrders /\ ~HasAdapter(Stored(lastOp'.h).srcChain))
                  => lastOp'.outcome = "NoAdapter"
     /\ (lastOp'.op = "cancelOrder"
           /\ lastOp'.outcome \in {"OrderNotFound", "NoAdapter", "CancelFailed"})
          => /\ UNCHANGED <<storeVars, loopVars>>
             /\ \A c \in BagToSet(cancels') : CopiesIn(c, cancels') <= CopiesIn(c, cancels)]_vars

\* C11 witness: the adapter's cancelOrder has just rejected for a stored,
\* monitored order that is still PENDING.
C11_Witness ==
  /\ lastOp.op = "cancelOrder" /\ lastOp.outcome = "CancelFailed"
  /\ lastOp.h \in DOMAIN activeOrders
  /\ lastOp.h \in DOMAIN pollingIntervals
  /\ Stored(lastOp.h).status = PENDING

CleanupCallStep == lastOp'.op = "cleanup" /\ nCalls' = nCalls + 1

CleanupReturnStep(op) == op.op = "cleanup" /\ op.outcome = "done"

FailedBefore(log, n) == \A k \in 1..(n - 1) : ~log[k].ok

\* C13: retry does not give up while attempts are left (it throws only after
\* maxRetries failures), so an operation that fails k times and succeeds on
\* attempt k + 1 <= maxRetries gets that attempt; when it succeeds retry
\* returns that value, the operation has been invoked exactly k + 1 times
\* and it is not invoked again.
C13_RetryReturnsFirstSuccess ==
  /\ retryRun.pc = "thrown" => Len(retryRun.log) >= retryRun.maxRetries
  /\ retryRun.pc = "returned"
       => /\ retryRun.log # <<>>
          /\ retryRun.log[Len(retryRun.log)].ok
          /\ retryRun.result = retryRun.log[Len(retryRun.log)].v
          /\ FailedBefore(retryRun.log, Len(retryRun.log))
          /\ retryRun.invoked = Len(retryRun.log)
          /\ retryRun.invoked <= retryRun.maxRetries
  /\ FailedBefore(retryRun.log, Len(retryRun.log))

\* C13 witness: with maxRetries = 3 the operation failed twice and succeeded
\* on the third attempt, and retry has returned.
C13_Witness ==
  /\ retryRun.pc = "returned"
  /\ retryRun.maxRetries = 3
  /\ Len(retryRun.log) = 3
  /\ retryRun.result = "V2"

\* C14: with maxRetries >= 1 and an operation that fails on every attempt,
\* retry ends; it then has invoked the operation exactly maxRetries times,
\* throws the error of the last attempt, and has waited delay * 2^i after
\* failed attempt i (counted from 0) for every attempt but the last.
C14_RetryExhausted ==
  /\ [](/\ retryRun.invoked <= retryRun.maxRetries \/ retryRun.invoked = 0
        /\ retryRun.pc = "sleep" => Len(retryRun.slept) = Len(retryRun.log)
        /\ (retryRun.pc = "thrown" /\ retryRun.maxRetries >= 1)
             => /\ retryRun.invoked = retryRun.maxRetries
                /\ Len(retryRun.log) = retryRun.maxRetries
                /\ retryRun.thrown = retryRun.log[retryRun.maxRetries].v
                /\ retryRun.slept = [k \in 1..(retryRun.maxRetries - 1) |->
                                       retryRun.delay * (2 ^ (k - 1))])
  /\ <>(retryRun.pc \in {"returned", "thrown"})

\* C14 witness: with maxRetries = 3 and delay 1000 the operation failed three
\* times, the last time with E2, and retry has thrown.
C14_Witness ==
  /\ retryRun.pc = "thrown"
  /\ retryRun.maxRetries = 3 /\ retryRun.delay = 1000
  /\ retryRun.thrown = "E2"
  /\ retryRun.slept = <<1000, 2000>>

CreateAdapterReturned(op) == op.op = "createAdapter" /\ op.outcome = "ok"

C17_OneLiveInstancePerChain ==
  \A a, b \in DOMAIN inst :
    (inst[a].chain = inst[b].chain /\ inst[a].connected /\ inst[b].connected) => a = b

\* C18: createAdapter for a chain id that has no registered function fails
\* with UnsupportedChain; it caches no instance for that id and leaves the
\* registered keys (getSupportedChains) and the cache as they were.
C18_UnregisteredCreateFails ==
  [][/\ (lastOp'.op = "createAdapter" /\ lastOp'.key \notin factories)
          => lastOp'.outcome = "UnsupportedChain"
     /\ (lastOp'.op = "createAdapter" /\ lastOp'.outcome = "UnsupportedChain")
          => /\ lastOp'.key \notin DOMAIN instances'
             /\ UNCHANGED <<factories, factoryIds, instances, inst>>]_vars

\* C18 witness: with an instance cached for S, createAdapter for the
\* unregistered chain U has just failed.
C18_Witness ==
  /\ lastOp.op = "createAdapter" /\ lastOp.outcome = "UnsupportedChain"
  /\ lastOp.key = "U"
  /\ "S" \in DOMAIN instances

TickStatusStep == lastOp'.op = "tick" /\ lastOp'.outcome \in StatusResponses

\* C20: when the status check of a tick of order h gets its answer, an
\* answer of executed makes the order EXECUTED and one of cancelled makes it
\* CANCELLED, and in both cases the loop of h is unregistered and its timer
\* cleared; any other answer leaves the order's status and the loops as they
\* are.
C20_StatusCheckOutcome ==
  [][TickStatusStep
       => /\ \E tk \in BagToSet(ticks) : tk.pc = "status" /\ tk.h = lastOp'.h
          /\ \A k \in DOMAIN orderObjs :
               orderObjs[k].orderHash = lastOp'.h
                 => orderObjs'[k].status =
                      CASE lastOp'.outcome = "executed" -> EXECUTED
                        [] lastOp'.outcome = "cancelled" -> CANCELLED
                        [] OTHER -> orderObjs[k].status
          /\ lastOp'.outcome \in {"executed", "cancelled"}
               => /\ lastOp'.h \notin DOMAIN pollingIntervals'
                  /\ LiveTimersOf(lastOp'.h, timers') = {}
          /\ lastOp'.outcome \notin {"executed", "cancelled"}
               => UNCHANGED loopVars]_vars

\* C20 witness: the status check of a tick has just been answered cancelled
\* for a stored order, which is now CANCELLED though cancelOrder was never
\* called, and its loop is gone.
C20_Witness ==
  /\ lastOp.op = "tick" /\ lastOp.outcome = "cancelled"
  /\ lastOp.h \in DOMAIN activeOrders
  /\ Stored(lastOp.h).status = CANCELLED
  /\ cancelled = {}
  /\ lastOp.h \notin DOMAIN pollingIntervals

\* The Fill the scenario expects for index 0.
E2EFill == [idx |-> 0, amount |-> "500", txHash |-> "0xabc", resolver |-> "R1"]

\* C19: in the end-to-end scenario the placed order has one secret; it is
\* PENDING with no fills until the tick that is told index 0 is ready; when
\* that tick has ended, and from then on, its Fill sequence is exactly the
\* one record of index 0, amount 500, txHash 0xabc and resolver R1; and once
\* the status check of the next tick has been told executed the order is
\* EXECUTED, its loop is unregistered and its timer cleared.
C19_EndToEndScenario ==
  \A h \in DOMAIN activeOrders :
    /\ Len(Stored(h).secrets) = 1
    /\ E2ETick < E2ETicks - 1
         => Stored(h).status = PENDING /\ Stored(h).fills = <<>>
    /\ (E2ETick = E2ETicks - 1 /\ ticks = EmptyBag)
         => Stored(h).status = PENDING /\ Stored(h).fills = <<E2EFill>>
    /\ E2ETick = E2ETicks
         => /\ Stored(h).fills = <<E2EFill>>
            /\ (\A tk \in BagToSet(ticks) : tk.pc # "status")
                 => /\ Stored(h).status = EXECUTED
                    /\ h \notin DOMAIN pollingIntervals
                    /\ LiveTimersOf(h, timers) = {}

\* C19 witness: the status check of the last tick has just been told
\* executed, after the tick before it recorded the fill of index 0.
C19_Witness ==
  /\ lastOp.op = "tick" /\ lastOp.outcome = "executed"
  /\ E2ETick = E2ETicks
  /\ lastOp.h \in DOMAIN activeOrders
  /\ Stored(lastOp.h).status = EXECUTED
  /\ Stored(lastOp.h).fills = <<E2EFill>>
  /\ pollingIntervals = EmptyMap

\* The step is one that stops the loop of order h: the status check of a
\* tick of h told executed or cancelled, a cancelOrder(h) that succeeds, or
\* the call of cleanup.
StopsLoopOf(h) ==
  \/ TickStatusStep /\ TerminalReport(lastOp'.outcome) /\ lastOp'.h = h
  \/ lastOp'.op = "cancelOrder" /\ lastOp'.outcome = "ok" /\ lastOp'.h = h
  \/ CleanupCallStep

\* C21: the loop of an order leaves the registry, and its timer is cleared,
\* only in a step that is the status check of a tick of that same order told
\* executed or cancelled, a successful cancelOrder of that order, or the call
\* of cleanup; a failed status query, fill-readiness query or secret
\* submission, and any step about another order, leave it registered with the
\* same timer.
C21_LoopStoppedOnlyBy ==
  [][/\ \A h \in DOMAIN pollingIntervals :
          (h \notin DOMAIN pollingIntervals' \/ pollingIntervals'[h] # pollingIntervals[h])
            => StopsLoopOf(h)
     /\ \A t \in DOMAIN timers :
          (timers[t].live /\ ~timers'[t].live) => StopsLoopOf(timers[t].order)
     /\ (lastOp'.op = "tick"
           /\ lastOp'.outcome \in {"statusFailed", "fillsFailed", "submitFailed"})
          => UNCHANGED loopVars]_vars

\* C21 witness: a secret submission has just failed in a tick of an order whose
\* loop is still registered, after the loop of another order was stopped.
C21_Witness ==
  /\ lastOp.op = "tick" /\ lastOp.outcome = "submitFailed"
  /\ lastOp.h \in DOMAIN pollingIntervals
  /\ timers[pollingIntervals[lastOp.h]].live
  /\ \E g \in DOMAIN activeOrders : g # lastOp.h /\ g \notin DOMAIN pollingIntervals

\* The order hashes placed so far.
Placed == 1..Len(orderObjs)

\* stopOrderMonitoring(h) has run: h was placed and its loop is not registered.
Stopped(h) == h \in Placed /\ h \notin DOMAIN pollingIntervals

TickFireStep == lastOp'.op = "tick" /\ lastOp'.outcome = "fire"

\* C22: once stopOrderMonitoring(h) has run (from a status check told a
\* terminal status, from cancelOrder or from cleanup) the loop of h stays
\* unregistered, h has no live timer and no tick of h starts any more: a tick
\* starts only for an order whose loop is registered with a live timer.  A
\* tick of h that had started before goes on: cancelOrder and cleanup leave
\* the ticks in flight as they are.
C22_NoTickAfterStop ==
  [][/\ \A h \in Placed :
          Stopped(h) => /\ h \notin DOMAIN pollingIntervals'
                        /\ LiveTimersOf(h, timers) = {}
                        /\ LiveTimersOf(h, timers') = {}
                        /\ ~(TickFireStep /\ lastOp'.h = h)
     /\ TickFireStep
          => /\ lastOp'.h \in DOMAIN pollingIntervals
             /\ timers[pollingIntervals[lastOp'.h]].live
     /\ (CleanupCallStep \/ (lastOp'.op = "cancelOrder" /\ lastOp'.outcome = "ok"))
          => ticks' = ticks]_vars

\* C22 witness: a tick of an order that started before the loop was stopped by
\* cancelOrder has just had its secret submission answered.
C22_Witness ==
  /\ lastOp.op = "tick" /\ lastOp.outcome = "submitted"
  /\ Stopped(lastOp.h)
  /\ lastOp.h \in cancelled
  /\ nTicks < MaxTicks

\* C23: when submitSecret fails for an entry of a fill-readiness response, no
\* Fill record is appended and no order changes, the loops stay as they are,
\* and the tick goes on: submitSecret is sent for the next entry of the same
\* response, or, after the last entry, the tick ends without an error.
C23_SubmitFailureIsolated ==
  [][(lastOp'.op = "tick" /\ lastOp'.outcome = "submitFailed")
       => /\ UNCHANGED <<storeVars, loopVars, submitted>>
          /\ \E tk \in BagToSet(ticks) :
               /\ tk.pc = "submit" /\ tk.h = lastOp'.h
               /\ IF tk.j < Len(tk.ready)
                    THEN \E nx \in BagToSet(ticks') :
                           /\ nx.pc = "submit" /\ nx.h = tk.h
                           /\ nx.ready = tk.ready /\ nx.j = tk.j + 1
                           /\ nx.secrets = tk.secrets
                           /\ ticks' = BagAdd(BagRemove(ticks, tk), nx)
                    ELSE ticks' = BagRemove(ticks, tk)]_vars

\* C23 witness: in the one tick fired so far the response listed indices 0
\* and 1; the submission for 0 failed, and the one for 1 has just succeeded:
\* the order has a Fill of index 1 and none of index 0, and its loop is
\* registered.
C23_Witness ==
  /\ lastOp.op = "tick" /\ lastOp.outcome = "submitted"
  /\ nTicks = 1
  /\ lastOp.h \in DOMAIN activeOrders
  /\ RecordedIdx(lastOp.h, orderObjs) = {1}
  /\ Len(Stored(lastOp.h).secrets) = 2
  /\ lastOp.h \in DOMAIN pollingIntervals

\* C24: a status query that fails, and a fill-readiness query that fails or
\* answers not-found, change no order (status, Fill sequence), no table and no
\* loop, and end in the tick itself: no other operation is touched.  After a
\* failed status query the same tick goes on to processOrderFills: with
\* secrets stored for the order its fill-readiness query is sent.  After a
\* failed fill-readiness query the tick is over.
C24_FailedQueryQuiescent ==
  [][(lastOp'.op = "tick" /\ lastOp'.outcome \in {"statusFailed", "fillsFailed"})
       => /\ UNCHANGED <<storeVars, loopVars, histVars, creates, cancels, cleanups>>
          /\ lastOp'.outcome = "statusFailed"
               => \E tk \in BagToSet(ticks) :
                    /\ tk.pc = "status" /\ tk.h = lastOp'.h
                    /\ IF tk.h \in DOMAIN orderSecrets
                         THEN \E nx \in BagToSet(ticks') :
                                /\ nx.pc = "fills" /\ nx.h = tk.h
                                /\ nx.secrets = orderSecrets[tk.h]
                                /\ ticks' = BagAdd(BagRemove(ticks, tk), nx)
                         ELSE ticks' = BagRemove(ticks, tk)
          /\ lastOp'.outcome = "fillsFailed"
               => \E tk \in BagToSet(ticks) :
                    /\ tk.pc = "fills" /\ tk.h = lastOp'.h
                    /\ ticks' = BagRemove(ticks, tk)]_vars

\* C24 witness: the status query of a tick has just failed for a stored order
\* that is still PENDING with its loop registered, and the fill-readiness query
\* of that tick is in flight.
C24_Witness ==
  /\ lastOp.op = "tick" /\ lastOp.outcome = "statusFailed"
  /\ lastOp.h \in DOMAIN activeOrders
  /\ Stored(lastOp.h).status = PENDING
  /\ lastOp.h \in DOMAIN pollingIntervals
  /\ \E tk \in BagToSet(ticks) : tk.h = lastOp.h /\ tk.pc = "fills"

\* The attempts made of the external call a suspended operation waits for.
\* createOrder sends getQuote and placeOrder from inside retry, whose loop
\* variable i counts the attempts from 0; a tick and cancelOrder call the
\* Settlement Service and the adapter directly, so the pending call is the
\* only attempt.
AttemptsMade(call) == IF "i" \in DOMAIN call THEN call.i + 1 ELSE 1

\* C25: a failure of an external call is logged or propagated only after the
\* call has been attempted maxRetries times: getOrderStatus,
\* getReadyToAcceptSecretFills and submitSecret in a tick and the adapter's
\* cancelOrder in cancelOrder, as getQuote and placeOrder in createOrder.
C25_EveryCallRetried ==
  [][/\ (lastOp'.op = "createOrder" /\ lastOp'.outcome \in {"QuoteFailed", "PlaceFailed"})
          => \E c \in BagToSet(creates) :
               /\ creates' = BagRemove(creates, c)
               /\ AttemptsMade(c) = DefaultMaxRetries
     /\ (lastOp'.op = "tick"
           /\ lastOp'.outcome \in {"statusFailed", "fillsFailed", "submitFailed"})
          => \E tk \in BagToSet(ticks) :
               /\ tk.h = lastOp'.h
               /\ BagRemove(ticks, tk) \sqsubseteq ticks'
               /\ AttemptsMade(tk) = DefaultMaxRetries
     /\ (lastOp'.op = "cancelOrder" /\ lastOp'.outcome = "CancelFailed")
          => \E c \in BagToSet(cancels) :
               /\ cancels' = BagRemove(cancels, c)
               /\ AttemptsMade(c) = DefaultMaxRetries]_vars

\* The part of C25 that holds: getQuote and placeOrder are given up only
\* after maxRetries attempts.
CreateCallsRetried ==
  [][(lastOp'.op = "createOrder" /\ lastOp'.outcome \in {"QuoteFailed", "PlaceFailed"})
       => \E c \in BagToSet(creates) :
            /\ creates' = BagRemove(creates, c)
            /\ AttemptsMade(c) = DefaultMaxRetries]_vars

\* C26: every Fill record of an order has an index that addresses one of the
\* order's secret slots (0 <= idx < number of secrets), and every value
\* handed to submitSecret for an order, answered or still in flight, is the
\* secret the order stores at the index reported ready.
C26_FillIndexInRange ==
  /\ \A k \in DOMAIN orderObjs :
       \A i \in DOMAIN orderObjs[k].fills :
         /\ 0 <= orderObjs[k].fills[i].idx
         /\ orderObjs[k].fills[i].idx < Len(orderObjs[k].secrets)
  /\ \A tk \in BagToSet(ticks) :
       tk.pc = "submit"
         => /\ tk.ready[tk.j].idx + 1 \in DOMAIN orderObjs[tk.h].secrets
            /\ SubmitKey(tk)[3] = orderObjs[tk.h].secrets[tk.ready[tk.j].idx + 1]
  /\ \A key \in DOMAIN submitted :
       /\ key[2] + 1 \in DOMAIN orderObjs[key[1]].secrets
       /\ key[3] = orderObjs[key[1]].secrets[key[2] + 1]

\* What C27 says of the order stored under h.
StoredOrderShape(h) ==
  /\ Len(Stored(h).secrets) = Len(Stored(h).secretHashes)
  /\ \A i \in DOMAIN Stored(h).secrets :
       Stored(h).secretHashes[i] = hashSecret(Stored(h).secrets[i])
  /\ h \in DOMAIN orderSecrets
  /\ orderSecrets[h] = Stored(h).secrets
  /\ Stored(h).orderHash = h
  /\ Stored(h).orderHash \in OrderHashes
  /\ Stored(h).status # CREATED

\* C27: every order in the order table has as many secrets as secretHashes,
\* the secrets table holds the same secrets under the same hash, its
\* orderHash is the hash the Settlement Service gave it, and its status is not
\* CREATED.  When createOrder stores an order, the number of its secrets is
\* the secretsCount of the quote of that call, and the secrets and the
\* secretHashes of a stored order never change afterwards.
C27_StoredOrderWellFormed ==
  [][/\ \A h \in DOMAIN activeOrders' : StoredOrderShape(h)'
     /\ (lastOp'.op = "createOrder" /\ lastOp'.outcome = "ok")
          => \E c \in BagToSet(creates) :
               /\ creates' = BagRemove(creates, c)
               /\ c.secretsCount \in SecretCounts
               /\ Len(orderObjs'[activeOrders'[lastOp'.h]].secrets) = c.secretsCount
               /\ Len(orderObjs'[activeOrders'[lastOp'.h]].secretHashes) = c.secretsCount
     /\ \A h \in (DOMAIN activeOrders) \cap (DOMAIN activeOrders') :
          /\ orderObjs'[activeOrders'[h]].secrets = Stored(h).secrets
          /\ orderObjs'[activeOrders'[h]].secretHashes = Stored(h).secretHashes]_vars

\* C27 witness: two orders are stored, one placed with a quote of one secret
\* and one with a quote of two; one of them has a Fill and is EXECUTED.
C27_Witness ==
  /\ \E g, h \in DOMAIN activeOrders :
       /\ Len(Stored(g).secrets) = 1
       /\ Len(Stored(h).secrets) = 2
  /\ \E h \in DOMAIN activeOrders :
       Stored(h).status = EXECUTED /\ Stored(h).fills # <<>>

\* What C28 compares of an order object, and the timers of an order hash.
OrderView(o) == <<o.orderHash, o.status, o.fills, o.secrets, o.secretHashes>>

TimersOf(h, tms) == { <<t, tms[t].live>> : t \in { u \in DOMAIN tms : tms[u].order = h } }

\* The secret s belongs to no order but the one of hash h.
OwnSecret(h, s) ==
  \A k \in DOMAIN orderObjs :
    s \in Range(orderObjs[k].secrets) => orderObjs[k].orderHash = h

\* C28: a step of a tick of order A (its firing, its status check, its
\* fill-readiness query, a secret submission and the Fill it records) and a
\* step of cancelOrder(A) leave every other order as it is: its status, Fill
\* sequence, secrets, entry in the secrets table, loop registration and
\* timers.  No secret of one order is handed to submitSecret under the hash
\* of another, in a call answered or still in flight.
C28_OrdersIndependent ==
  [][/\ lastOp'.op \in {"tick", "cancelOrder"}
          => /\ \A k \in DOMAIN orderObjs :
                  orderObjs[k].orderHash # lastOp'.h
                    => OrderView(orderObjs'[k]) = OrderView(orderObjs[k])
             /\ \A b \in OrderHashes \ {lastOp'.h} :
                  /\ b \in DOMAIN activeOrders <=> b \in DOMAIN activeOrders'
                  /\ b \in DOMAIN activeOrders => activeOrders'[b] = activeOrders[b]
                  /\ b \in DOMAIN orderSecrets <=> b \in DOMAIN orderSecrets'
                  /\ b \in DOMAIN orderSecrets => orderSecrets'[b] = orderSecrets[b]
                  /\ b \in DOMAIN pollingIntervals <=> b \in DOMAIN pollingIntervals'
                  /\ b \in DOMAIN pollingIntervals
                       => pollingIntervals'[b] = pollingIntervals[b]
                  /\ TimersOf(b, timers') = TimersOf(b, timers)
     /\ \A key \in DOMAIN submitted' : OwnSecret(key[1], key[3])'
     /\ \A tk \in BagToSet(ticks') : tk.pc = "submit" => OwnSecret(tk.h, SubmitKey(tk)[3])']_vars

\* C28 witness: two orders are stored and monitored; a secret of one has just
\* been submitted and its Fill recorded while a tick of the other, which is
\* PENDING without fills, is in flight.
C28_Witness ==
  /\ lastOp.op = "tick" /\ lastOp.outcome = "submitted"
  /\ lastOp.h \in DOMAIN activeOrders
  /\ Stored(lastOp.h).fills # <<>>
  /\ \E b \in DOMAIN activeOrders :
       /\ b # lastOp.h
       /\ b \in DOMAIN pollingIntervals
       /\ Stored(b).status = PENDING /\ Stored(b).fills = <<>>
       /\ \E tk \in BagToSet(ticks) : tk.h = b

\* The loop of the order is registered.
Monitored == LoopOrder \in DOMAIN pollingIntervals

StatusAnswerStep ==
  lastOp'.op = "tick" /\ lastOp'.outcome \in StatusResponses \cup {"statusFailed"}

CancelOkStep == lastOp'.op = "cancelOrder" /\ lastOp'.outcome = "ok"

\* Every status query answered in the step succeeds and reports s, and no
\* cancelOrder succeeds in it.
OnlyReports(s) ==
  /\ StatusAnswerStep => lastOp'.outcome = s
  /\ ~CancelOkStep

OrderIs(status) ==
  /\ LoopOrder \in DOMAIN activeOrders
  /\ Stored(LoopOrder).status = status

\* C29: with a live timer firing again and again and every request settling,
\* if the order is monitored, never becomes CANCELLED, and from some point on
\* every status query succeeds and reports executed, then eventually the
\* order is EXECUTED with its loop unregistered; likewise with cancelled and
\* CANCELLED.  And the loop of a monitored order leaves the registry, or loses
\* its timer, only in a step in which a status query reports executed or
\* cancelled or a cancelOrder succeeds: short of these it stays registered
\* for ever.
C29_LoopTerminates ==
  /\ (<>Monitored /\ []~OrderIs(CANCELLED) /\ <>[][OnlyReports("executed")]_vars)
       => <>(OrderIs(EXECUTED) /\ ~Monitored)
  /\ (<>Monitored /\ []~OrderIs(EXECUTED) /\ <>[][OnlyReports("cancelled")]_vars)
       => <>(OrderIs(CANCELLED) /\ ~Monitored)
  /\ [][Monitored
          => \/ Monitored' /\ timers'[pollingIntervals'[LoopOrder]].live
             \/ TickStatusStep /\ TerminalReport(lastOp'.outcome)
             \/ CancelOkStep]_vars

\* C29 witness: a status query has just reported executed to a tick of the
\* order, which another tick had already recorded a Fill for; no cancelOrder
\* has succeeded; the order is EXECUTED and its loop unregistered.
C29_Witness ==
  /\ lastOp.op = "tick" /\ lastOp.outcome = "executed"
  /\ OrderIs(EXECUTED)
  /\ Stored(LoopOrder).fills # <<>>
  /\ ~Monitored
  /\ cancelled = {}

\* The indices a fill-readiness response can list.
ReadyIndices == 0..(MaxReady - 1)

\* The tick the step takes from its await.
Answered(tk) == tk \in BagToSet(ticks) /\ CopiesIn(tk, ticks') < CopiesIn(tk, ticks)

\* The step answers a fill-readiness query with a response that lists idx.
ListsReady(idx) ==
  \E nx \in BagToSet(ticks') :
    /\ CopiesIn(nx, ticks') > CopiesIn(nx, ticks)
    /\ nx.pc = "submit" /\ nx.j = 1
    /\ \E k \in DOMAIN nx.ready : nx.ready[k].idx = idx

\* A fill-readiness query answered in the step lists idx, as long as the
\* order has no Fill of idx, and a submitSecret for idx answered in it succeeds.
ReleaseGoesThrough(idx) ==
  /\ (lastOp'.op = "tick" /\ lastOp'.outcome \in {"fills", "fillsFailed"}
        /\ idx \notin RecordedIdx(LoopOrder, orderObjs))
       => lastOp'.outcome = "fills" /\ ListsReady(idx)
  /\ \A tk \in BagToSet(ticks) :
       (Answered(tk) /\ tk.pc = "submit" /\ tk.ready[tk.j].idx = idx)
         => lastOp'.outcome = "submitted"

\* C30: with a live timer firing again and again and every request settling,
\* if the loop of the order stays registered and, whatever failed before,
\* from some point on every fill-readiness query lists index i as ready
\* (until the order has a Fill of i) and every submitSecret for i succeeds,
\* then eventually the order has a Fill record of index i.  A submission that
\* fails leaves the index to the later ticks: the order, its secrets and its
\* loop stay as they are.
C30_SecretEventuallyReleased ==
  /\ \A i \in ReadyIndices :
       (<>[]Monitored /\ <>[][ReleaseGoesThrough(i)]_vars)
         => <>(i \in RecordedIdx(LoopOrder, orderObjs))
  /\ [][(lastOp'.op = "tick" /\ lastOp'.outcome = "submitFailed")
          => UNCHANGED <<storeVars, loopVars>>]_vars

\* C30 witness: a tick of the order, which is monitored and PENDING, has ended
\* with the submission for the index it was told ready failed: the order has
\* no Fill, and the submission is left to a later tick.
C30_Witness ==
  /\ lastOp.op = "tick" /\ lastOp.outcome = "submitFailed"
  /\ Monitored
  /\ OrderIs(PENDING)
  /\ Stored(LoopOrder).fills = <<>>
  /\ submitted = EmptyMap
  /\ ticks = EmptyBag

\* C31: with the adapters of S and D registered and every connect resolving,
\* and cleanup never called, a createOrder(S -> D) issued at any time after
\* the constructor has returned does not fail with UnsupportedChainPair.
C31_InitBeforeOrders ==
  (CreateCallStep(lastOp) /\ lastOp.src = "S" /\ lastOp.dst = "D")
    => lastOp.outcome # "UnsupportedChainPair"

\* No timer is live.
NoLiveTimer(tms) == \A t \in DOMAIN tms : ~tms[t].live

\* C32: when cleanup has returned, the order table and the secrets table are
\* empty and no loop is registered or has a live timer; and they are still so
\* after the next step, whatever it is: the placement of a createOrder that
\* was in flight completing, or a tick that was in flight going on.
C32_CleanupFinal ==
  [][CleanupReturnStep(lastOp)
       => /\ activeOrders = EmptyMap /\ activeOrders' = EmptyMap
          /\ orderSecrets = EmptyMap /\ orderSecrets' = EmptyMap
          /\ pollingIntervals = EmptyMap /\ pollingIntervals' = EmptyMap
          /\ NoLiveTimer(timers) /\ NoLiveTimer(timers')]_vars

\* C35: whatever maxRetries retry is called with, 0 and negative numbers
\* included, when it has ended the operation has been invoked at least once,
\* and what it throws is the error of the last attempt, never undefined.
C35_RetryAttemptsOnce ==
  /\ retryRun.pc \in {"returned", "thrown"} => retryRun.invoked >= 1
  /\ retryRun.pc = "thrown"
       => /\ retryRun.thrown # UndefinedError
          /\ retryRun.log # <<>>
          /\ retryRun.thrown = retryRun.log[Len(retryRun.log)].v

\* C33: at any time each order hash has at most one live timer, and every
\* live timer is the one the loop table holds for its order hash (so that
\* stopOrderMonitoring can clear it), also when placeOrder answers with an
\* order hash that is already in the order table.
C33_LiveTimersRegistered ==
  /\ \A h \in OrderHashes : Cardinality(LiveTimersOf(h, timers)) <= 1
  /\ \A t \in DOMAIN timers :
       timers[t].live
         => /\ timers[t].order \in DOMAIN pollingIntervals
            /\ pollingIntervals[timers[t].order] = t

\* C34: once the interval of a watch is cleared, that is after onStatusChange
\* has been invoked with CONFIRMED or FAILED or after a status query has
\* failed, onStatusChange is not invoked again and no further poll starts,
\* also with several polls in flight at once.
C34_WatchStopsCallbacks ==
  [][(watch.pc = "watching" /\ ~watch.live)
       => /\ watch'.calls = watch.calls
          /\ watch'.fired = watch.fired
          /\ watch'.polls <= watch.polls]_vars

\* The part of C34 that holds: once the interval is cleared no poll starts.
WatchStopsPolls ==
  [][(watch.pc = "watching" /\ ~watch.live)
       => /\ watch'.fired = watch.fired
          /\ watch'.polls <= watch.polls]_vars

====
